---- MODULE Spec2Model ----
(***************************************************************************)
(* Model of the autonomous sailing control core: guidance_module.c (tack   *)
(* state machine, PI rudder controller, sail controller, helmsman tack     *)
(* law) and the control daemon of autonomous_sailing.c.                    *)
(*                                                                         *)
(* Numbers.  The C code computes in IEEE single precision.  The model uses *)
(* fixed point:                                                            *)
(*   - roll, yaw, alpha, alpha_star, apparent wind: milliradians           *)
(*   - alpha_yaw (input of the helmsman law):       microradians           *)
(*   - rudder and sail commands:                    1/1000 of full command *)
(*   - gains and roll_stop_tack:                    tenths (GainScale)     *)
(* A value written to the actuators is a tagged float, so that the IEEE    *)
(* special values the code can produce (NaN, infinities) are states of the *)
(* model: [k |-> "fin", v |-> n], [k |-> "inf", v |-> +1/-1], or           *)
(* [k |-> "nan", v |-> 0].                                                 *)
(***************************************************************************)
EXTENDS Integers, Sequences, FiniteSets, TLC

----------------------------------------------------------------------------
(* Fixed point and IEEE helpers *)

Abs(x) == IF x < 0 THEN -x ELSE x

\* C division of two numbers, b # 0, rounded toward zero.
Quot(a, b) ==
    IF (a >= 0) = (b > 0) THEN Abs(a) \div Abs(b) ELSE -(Abs(a) \div Abs(b))

Fin(v) == [k |-> "fin", v |-> v]
NaN == [k |-> "nan", v |-> 0]
Inf(s) == [k |-> "inf", v |-> s]

\* a / b for numbers a, b: IEEE division, x/0 = +-inf, 0/0 = NaN.
FDivInt(a, b) ==
    IF b # 0 THEN Fin(Quot(a, b))
    ELSE IF a > 0 THEN Inf(1) ELSE IF a < 0 THEN Inf(-1) ELSE NaN

\* (int32_t)(a / q) for a finite a >= 0 and a float q: a/inf = 0.  The cast of
\* a NaN is undefined in C; the quanta are never NaN (pi/num, SAIL_SATURATION/num).
SectorOf(a, q) ==
    IF q.k = "fin" THEN (IF q.v = 0 THEN 0 ELSE Quot(a, q.v)) ELSE 0

\* n * q for an integer n and a float q: 0 * inf = NaN.
FMulInt(n, q) ==
    IF q.k = "fin" THEN Fin(n * q.v)
    ELSE IF q.k = "nan" THEN NaN
    ELSE IF n = 0 THEN NaN
    ELSE Inf(IF n > 0 THEN q.v ELSE -q.v)

\* c - f for a number c and a float f.
FSubFrom(c, f) ==
    IF f.k = "fin" THEN Fin(c - f.v)
    ELSE IF f.k = "nan" THEN NaN
    ELSE Inf(-f.v)

\* f < c and f > c for a float f and a number c: every comparison with NaN is false.
FLt(f, c) == \/ (f.k = "fin" /\ f.v < c)
             \/ (f.k = "inf" /\ f.v < 0)
FGt(f, c) == \/ (f.k = "fin" /\ f.v > c)
             \/ (f.k = "inf" /\ f.v > 0)

\* a <= n/d and a >= n/d under IEEE division (d = 0 gives +-inf or NaN).
LeDiv(a, n, d) ==
    IF d > 0 THEN a * d <= n ELSE IF d < 0 THEN a * d >= n ELSE n > 0
GeDiv(a, n, d) ==
    IF d > 0 THEN a * d >= n ELSE IF d < 0 THEN a * d <= n ELSE n < 0

----------------------------------------------------------------------------
(* Program constants *)

GainScale == 10

\* M_PI_F, in milliradians.
M_PI_F == 3142

\* Command limits of as_settings.h, in 1/1000 of full command.
RUDDER_SATURATION == 900
SAIL_SATURATION == 560
RUDDER_45_LEFT == 850
SAIL_20 == 280

NUM_ACTUATOR_CONTROLS == 8

----------------------------------------------------------------------------
(* guidance_module.c: static data *)

\* tack_data as initialised at load time.
tack_data_init ==
    [boat_is_tacking |-> FALSE,
     tack_rudder_command |-> 0,
     roll_before_tack |-> [i \in {0, 1} |-> 0],
     yaw_before_tack |-> [i \in {0, 1} |-> 0],
     roll_stop_tack |-> 20,
     yaw_stop_tack |-> 1040]

\* sail_controller_data as initialised at load time: 4 positions.
sail_controller_data_init ==
    [position_quantum |-> Fin(Quot(M_PI_F, 4)),
     command_quantum |-> Fin(Quot(SAIL_SATURATION, 4))]

\* pi_rudder_data as initialised at load time.
pi_rudder_data_init ==
    [p |-> 0, i |-> 0, kaw |-> 5, cp |-> 10, ci |-> 10,
     use_conditional |-> TRUE, last_command |-> 0, sum_error_pi |-> 0]

----------------------------------------------------------------------------
(* guidance_module.c: tack completion *)

\* set_stop_tack(roll_stop, yaw_stop): roll_stop in tenths, yaw_stop in degrees.
set_stop_tack(td, roll_stop, yaw_stop) ==
    [td EXCEPT !.roll_stop_tack = roll_stop,
               !.yaw_stop_tack = Quot(yaw_stop * M_PI_F, 180)]

\* Mutant of roll_stop_tack: strict comparisons.
roll_stop_tack_strict(td, angle, index_roll) ==
    IF td.roll_before_tack[index_roll] > 0
    THEN angle * td.roll_stop_tack < -td.roll_before_tack[index_roll] * GainScale
    ELSE IF td.roll_before_tack[index_roll] < 0
    THEN angle * td.roll_stop_tack > -td.roll_before_tack[index_roll] * GainScale
    ELSE FALSE

\* roll_stop_tack(angle, index_roll)
roll_stop_tack(td, angle, index_roll) ==
    IF td.roll_before_tack[index_roll] > 0
    THEN LeDiv(angle, -td.roll_before_tack[index_roll] * GainScale, td.roll_stop_tack)
    ELSE IF td.roll_before_tack[index_roll] < 0
    THEN GeDiv(angle, -td.roll_before_tack[index_roll] * GainScale, td.roll_stop_tack)
    ELSE FALSE

\* Mutant of yaw_stop_tack: the turn direction is ignored, the turning-right
\* case is evaluated for every tack.
yaw_stop_tack_right_only(td, angle, index_yaw) ==
    LET ext == IF td.yaw_before_tack[index_yaw] > 0
               THEN (IF angle > 0 THEN angle ELSE 2 * M_PI_F + angle)
               ELSE angle
    IN  (ext - td.yaw_before_tack[index_yaw]) >= td.yaw_stop_tack

\* yaw_stop_tack(angle, index_yaw)
yaw_stop_tack(td, angle, index_yaw) ==
    IF td.tack_rudder_command > 0
    THEN LET ext == IF td.yaw_before_tack[index_yaw] < 0
                    THEN (IF angle < 0 THEN angle ELSE -2 * M_PI_F + angle)
                    ELSE angle
         IN  (ext - td.yaw_before_tack[index_yaw]) <= -td.yaw_stop_tack
    ELSE LET ext == IF td.yaw_before_tack[index_yaw] > 0
                    THEN (IF angle > 0 THEN angle ELSE 2 * M_PI_F + angle)
                    ELSE angle
         IN  (ext - td.yaw_before_tack[index_yaw]) >= td.yaw_stop_tack

\* Mutant of is_tack_completed: either condition completes the tack.
is_tack_completed_either(td, st) ==
    LET first_cond == roll_stop_tack(td, st.att.roll, 0)
                        \/ roll_stop_tack(td, st.boat_weather_station.roll_r, 1)
        second_cond == yaw_stop_tack(td, st.att.yaw, 0)
                        \/ yaw_stop_tack(td, st.boat_weather_station.heading_tn, 1)
    IN  first_cond \/ second_cond

\* is_tack_completed(strs_p)
is_tack_completed(td, st) ==
    LET first_cond == roll_stop_tack(td, st.att.roll, 0)
                        \/ roll_stop_tack(td, st.boat_weather_station.roll_r, 1)
        second_cond == yaw_stop_tack(td, st.att.yaw, 0)
                        \/ yaw_stop_tack(td, st.boat_weather_station.heading_tn, 1)
    IN  first_cond /\ second_cond

----------------------------------------------------------------------------
(* guidance_module.c: helmsman tack law (alpha in microradians) *)

\* Mutant of helmsman_rudder_p2s: the rising ramp starts at -0.31416, so that
\* alpha = 0 is half way up.
helmsman_rudder_p2s_shifted(alpha) ==
    IF alpha <= -523598 THEN RUDDER_45_LEFT
    ELSE IF alpha <= -314160 THEN Quot(-RUDDER_45_LEFT * alpha, 523598)
    ELSE IF alpha <= 314160
    THEN Quot(RUDDER_45_LEFT * (alpha + 314160), 628320)
    ELSE IF alpha <= 383970 THEN RUDDER_45_LEFT
    ELSE IF alpha <= 698130
    THEN Quot(-RUDDER_45_LEFT * alpha + RUDDER_45_LEFT * 698130, 314160)
    ELSE 0

helmsman_rudder_p2s(alpha) ==
    IF alpha <= -523598 THEN RUDDER_45_LEFT
    ELSE IF alpha <= 0 THEN Quot(-RUDDER_45_LEFT * alpha, 523598)
    ELSE IF alpha <= 314160 THEN Quot(RUDDER_45_LEFT * alpha, 314160)
    ELSE IF alpha <= 383970 THEN RUDDER_45_LEFT
    ELSE IF alpha <= 698130
    THEN Quot(-RUDDER_45_LEFT * alpha + RUDDER_45_LEFT * 698130, 314160)
    ELSE 0

helmsman_sails_p2s(alpha) ==
    IF alpha <= -523598
    THEN Quot(-SAIL_20 * alpha, 1047197) - Quot(SAIL_20 * 5, 10)
    ELSE IF alpha <= 87266 THEN 0
    ELSE IF alpha <= 270526
    THEN Quot(SAIL_20 * alpha, 183259) - Quot(SAIL_20 * 476190, 1000000)
    ELSE IF alpha <= 340339 THEN SAIL_20
    ELSE IF alpha <= 523598
    THEN Quot(-SAIL_20 * alpha, 183259) + Quot(SAIL_20 * 2857143, 1000000)
    ELSE 0

\* helmsman_tack_p2s(alpha, p_rud, p_sails)
helmsman_tack_p2s(alpha) ==
    [rud |-> helmsman_rudder_p2s(alpha), sails |-> helmsman_sails_p2s(alpha)]

\* Mutant of helmsman_tack_s2p: alpha is not mirrored.
helmsman_tack_s2p_same_side(alpha) ==
    LET port == helmsman_tack_p2s(alpha)
    IN  [rud |-> -port.rud, sails |-> port.sails]

\* helmsman_tack_s2p(alpha, p_rud, p_sails)
helmsman_tack_s2p(alpha) ==
    LET alpha_port == -alpha
        port == helmsman_tack_p2s(alpha_port)
    IN  [rud |-> -port.rud, sails |-> port.sails]

----------------------------------------------------------------------------
(* guidance_module.c: tack action *)

\* sailing_at_port_haul = (-ref_act_p->alpha_star < 0)
sailing_at_port_haul(ref) == -ref.alpha_star < 0

\* Mutants of tack_decide: the snapshot taken again in every cycle of the tack,
\* and a completion that leaves boat_is_tacking set.
tack_decide_resnapshot(ref, td, st) ==
    LET snap == [td EXCEPT
                    !.boat_is_tacking = TRUE,
                    !.roll_before_tack =
                        [i \in {0, 1} |-> IF i = 0 THEN st.att.roll
                                          ELSE st.boat_weather_station.roll_r],
                    !.yaw_before_tack =
                        [i \in {0, 1} |-> IF i = 0 THEN st.att.yaw
                                          ELSE st.boat_weather_station.heading_tn]]
    IN  IF td.boat_is_tacking
        THEN IF is_tack_completed(td, st)
             THEN [ref |-> [ref EXCEPT !.should_tack = FALSE],
                   td |-> [td EXCEPT !.boat_is_tacking = FALSE],
                   checked |-> TRUE, completed |-> TRUE, started |-> FALSE,
                   notify |-> 1, log |-> <<"Tack completed.">>]
             ELSE [ref |-> ref, td |-> snap,
                   checked |-> TRUE, completed |-> FALSE, started |-> FALSE,
                   notify |-> 0, log |-> <<>>]
        ELSE [ref |-> ref, td |-> snap,
              checked |-> FALSE, completed |-> FALSE, started |-> TRUE,
              notify |-> 0, log |-> <<>>]

tack_decide_keeps_tacking(ref, td, st) ==
    IF td.boat_is_tacking
    THEN IF is_tack_completed(td, st)
         THEN [ref |-> [ref EXCEPT !.should_tack = FALSE],
               td |-> td,
               checked |-> TRUE, completed |-> TRUE, started |-> FALSE,
               notify |-> 1, log |-> <<"Tack completed.">>]
         ELSE [ref |-> ref, td |-> td,
               checked |-> TRUE, completed |-> FALSE, started |-> FALSE,
               notify |-> 0, log |-> <<>>]
    ELSE [ref |-> ref,
          td |-> [td EXCEPT
                    !.boat_is_tacking = TRUE,
                    !.roll_before_tack =
                        [i \in {0, 1} |-> IF i = 0 THEN st.att.roll
                                          ELSE st.boat_weather_station.roll_r],
                    !.yaw_before_tack =
                        [i \in {0, 1} |-> IF i = 0 THEN st.att.yaw
                                          ELSE st.boat_weather_station.heading_tn]],
          checked |-> FALSE, completed |-> FALSE, started |-> TRUE,
          notify |-> 0, log |-> <<>>]

\* The branch of tack_action that decides the state: the completion check when
\* the boat is tacking, the start of the maneuver otherwise.  notify counts the
\* calls of notify_tack_completed, log holds the notices given to send_log_info.
tack_decide(ref, td, st) ==
    IF td.boat_is_tacking
    THEN IF is_tack_completed(td, st)
         THEN [ref |-> [ref EXCEPT !.should_tack = FALSE],
               td |-> [td EXCEPT !.boat_is_tacking = FALSE],
               checked |-> TRUE, completed |-> TRUE, started |-> FALSE,
               notify |-> 1, log |-> <<"Tack completed.">>]
         ELSE [ref |-> ref, td |-> td,
               checked |-> TRUE, completed |-> FALSE, started |-> FALSE,
               notify |-> 0, log |-> <<>>]
    ELSE [ref |-> ref,
          td |-> [td EXCEPT
                    !.boat_is_tacking = TRUE,
                    !.roll_before_tack =
                        [i \in {0, 1} |-> IF i = 0 THEN st.att.roll
                                          ELSE st.boat_weather_station.roll_r],
                    !.yaw_before_tack =
                        [i \in {0, 1} |-> IF i = 0 THEN st.att.yaw
                                          ELSE st.boat_weather_station.heading_tn]],
          checked |-> FALSE, completed |-> FALSE, started |-> TRUE,
          notify |-> 0, log |-> <<>>]

\* The helmsman law tack_action applies: chosen from the alpha_star it is given.
tack_law(ref) == IF sailing_at_port_haul(ref) THEN "p2s" ELSE "s2p"

tack_command(ref, alpha_yaw) ==
    IF tack_law(ref) = "p2s" THEN helmsman_tack_p2s(alpha_yaw)
    ELSE helmsman_tack_s2p(alpha_yaw)

\* tack_action(ref_act_p, strs_p, p_rudder_cmd, p_sails_cmd); alpha_yaw is the
\* value get_alpha_yaw() returns.
tack_action(ref, td, st, alpha_yaw) ==
    LET d == tack_decide(ref, td, st)
        c == tack_command(ref, alpha_yaw)
    IN  [ref |-> d.ref, td |-> d.td,
         checked |-> d.checked, completed |-> d.completed, started |-> d.started,
         notify |-> d.notify, log |-> d.log,
         law |-> tack_law(ref),
         rudder_cmd |-> c.rud, sails_cmd |-> c.sails]

----------------------------------------------------------------------------
(* guidance_module.c: rudder PI controller, sail controller, saturation *)

\* rudder_saturation(command)
rudder_saturation(command) ==
    IF command > RUDDER_SATURATION THEN RUDDER_SATURATION
    ELSE IF command < -RUDDER_SATURATION THEN -RUDDER_SATURATION
    ELSE command

\* Mutant of pi_controller: the integral part is the error sum itself, whatever
\* the integral gain.
pi_controller_sum(pi, ref, meas) ==
    LET error == ref - meas
        abs_error == IF error > 0 THEN error ELSE -error
        input_kaw == rudder_saturation(pi.last_command) - pi.last_command
        sum == IF pi.use_conditional
               THEN pi.sum_error_pi + error
               ELSE pi.sum_error_pi + (error + Quot(pi.kaw * input_kaw, GainScale))
        proportional_part ==
            IF pi.use_conditional
            THEN Quot(pi.p * error * 1000, GainScale * 1000 + pi.cp * abs_error)
            ELSE Quot(pi.p * error, GainScale)
        action == proportional_part + sum
    IN  [pi |-> [pi EXCEPT !.sum_error_pi = sum, !.last_command = action],
         action |-> action]

\* Mutant of pi_controller: the classical mode has no anti wind-up term.
pi_controller_no_windup(pi, ref, meas) ==
    LET error == ref - meas
        abs_error == IF error > 0 THEN error ELSE -error
        sum == pi.sum_error_pi + error
        integral_part ==
            IF pi.use_conditional
            THEN Quot(pi.i * sum * 1000,
                      GainScale * 1000 + pi.ci * Quot(error * error, 1000))
            ELSE Quot(pi.i * sum, GainScale)
        proportional_part ==
            IF pi.use_conditional
            THEN Quot(pi.p * error * 1000, GainScale * 1000 + pi.cp * abs_error)
            ELSE Quot(pi.p * error, GainScale)
        action == proportional_part + integral_part
    IN  [pi |-> [pi EXCEPT !.sum_error_pi = sum, !.last_command = action],
         action |-> action]

\* pi_controller(ref_p, meas_p): the new pi_rudder_data and the value returned.
\* Gains are tenths and not negative, so 1 + ci*error^2 and 1 + cp*|error| are
\* positive.
pi_controller(pi, ref, meas) ==
    LET error == ref - meas
        abs_error == IF error > 0 THEN error ELSE -error
        input_kaw == rudder_saturation(pi.last_command) - pi.last_command
        sum == IF pi.use_conditional
               THEN pi.sum_error_pi + error
               ELSE pi.sum_error_pi + (error + Quot(pi.kaw * input_kaw, GainScale))
        integral_part ==
            IF pi.use_conditional
            THEN Quot(pi.i * sum * 1000,
                      GainScale * 1000 + pi.ci * Quot(error * error, 1000))
            ELSE Quot(pi.i * sum, GainScale)
        proportional_part ==
            IF pi.use_conditional
            THEN Quot(pi.p * error * 1000, GainScale * 1000 + pi.cp * abs_error)
            ELSE Quot(pi.p * error, GainScale)
        action == proportional_part + integral_part
    IN  [pi |-> [pi EXCEPT !.sum_error_pi = sum, !.last_command = action],
         action |-> action]

\* Mutant of set_pi_rudder_data: the PI state is reset by every call.
set_pi_rudder_data_resets(pi, p, i, cp, ci, use_conditional, kaw) ==
    LET switched == \/ (pi.use_conditional = TRUE /\ use_conditional <= 0)
                    \/ (pi.use_conditional = FALSE /\ use_conditional > 0)
    IN  [pi |-> [pi EXCEPT !.p = p, !.i = i, !.kaw = kaw, !.cp = cp, !.ci = ci,
                           !.use_conditional = (use_conditional > 0),
                           !.last_command = 0, !.sum_error_pi = 0],
         log |-> IF ~switched THEN <<>>
                 ELSE IF use_conditional > 0
                 THEN <<"Switched to PI with conditional integration.">>
                 ELSE <<"Switched to normal PI with anti wind-up gain.">>]

\* set_pi_rudder_data(p, i, cp, ci, use_conditional, kaw): use_conditional is
\* the int32 parameter; log holds the notice given to send_log_info.
set_pi_rudder_data(pi, p, i, cp, ci, use_conditional, kaw) ==
    LET switched == \/ (pi.use_conditional = TRUE /\ use_conditional <= 0)
                    \/ (pi.use_conditional = FALSE /\ use_conditional > 0)
        g == [pi EXCEPT !.p = p, !.i = i, !.kaw = kaw, !.cp = cp, !.ci = ci,
                        !.use_conditional = (use_conditional > 0)]
    IN  [pi |-> IF switched
                THEN [g EXCEPT !.last_command = 0, !.sum_error_pi = 0]
                ELSE g,
         log |-> IF ~switched THEN <<>>
                 ELSE IF use_conditional > 0
                 THEN <<"Switched to PI with conditional integration.">>
                 ELSE <<"Switched to normal PI with anti wind-up gain.">>]

\* Mutant of sail_controller: an angle on a sector boundary stays in the lower
\* sector.
sail_controller_lower(sc, mean_apparent) ==
    LET abs_angle == IF mean_apparent > 0 THEN mean_apparent ELSE -mean_apparent
        sector == IF abs_angle = 0 THEN 0
                  ELSE SectorOf(abs_angle - 1, sc.position_quantum)
    IN  FSubFrom(SAIL_SATURATION, FMulInt(sector, sc.command_quantum))

\* sail_controller(): mean_apparent is the value get_app_wind() returns.
sail_controller(sc, mean_apparent) ==
    LET abs_angle == IF mean_apparent > 0 THEN mean_apparent ELSE -mean_apparent
        sector == SectorOf(abs_angle, sc.position_quantum)
    IN  FSubFrom(SAIL_SATURATION, FMulInt(sector, sc.command_quantum))

\* set_sail_positions(num)
set_sail_positions(num) ==
    [position_quantum |-> FDivInt(M_PI_F, num),
     command_quantum |-> FDivInt(SAIL_SATURATION, num)]

\* The clamp of the sail command in guidance_module.
sail_saturation(sail_command) ==
    IF FLt(sail_command, 0) THEN Fin(0)
    ELSE IF FGt(sail_command, SAIL_SATURATION) THEN Fin(SAIL_SATURATION)
    ELSE sail_command

----------------------------------------------------------------------------
(* guidance_module.c: guidance_module *)

\* Mutant of guidance_tack: the reference heading is consumed (set to 0) by the
\* cycle that completes the tack.
guidance_tack_consumes(ref, td, st, alpha_yaw) ==
    IF ref.should_tack
    THEN LET t == tack_action(ref, td, st, alpha_yaw)
         IN  [t EXCEPT !.ref.alpha_star = IF t.completed THEN 0 ELSE @]
    ELSE [ref |-> ref, td |-> td,
          checked |-> FALSE, completed |-> FALSE, started |-> FALSE,
          notify |-> 0, log |-> <<>>, law |-> "none",
          rudder_cmd |-> 0, sails_cmd |-> 0]

\* The first if of guidance_module: tack_action when should_tack is set.
guidance_tack(ref, td, st, alpha_yaw) ==
    IF ref.should_tack
    THEN tack_action(ref, td, st, alpha_yaw)
    ELSE [ref |-> ref, td |-> td,
          checked |-> FALSE, completed |-> FALSE, started |-> FALSE,
          notify |-> 0, log |-> <<>>, law |-> "none",
          rudder_cmd |-> 0, sails_cmd |-> 0]

\* Mutant of guidance_track: the tracking controllers as the else branch of the
\* tack, so that the cycle that completes a tack keeps the helmsman commands.
guidance_track_else(t, pi, sc, sail_servo, alpha, app_wind) ==
    IF ~t.ref.should_tack /\ ~t.completed
    THEN LET r == pi_controller(pi, t.ref.alpha_star, alpha)
         IN  [pi |-> r.pi, pi_calls |-> 1,
              rudder_command |-> r.action,
              sail_command |-> IF sail_servo < 0
                               THEN sail_controller(sc, app_wind)
                               ELSE Fin(sail_servo)]
    ELSE [pi |-> pi, pi_calls |-> 0,
          rudder_command |-> t.rudder_cmd,
          sail_command |-> Fin(t.sails_cmd)]

\* Mutant of guidance_track: the PI controller runs in every cycle, its result
\* is used only when the boat is not to tack.
guidance_track_pi_always(t, pi, sc, sail_servo, alpha, app_wind) ==
    LET r == pi_controller(pi, t.ref.alpha_star, alpha)
    IN  IF ~t.ref.should_tack
        THEN [pi |-> r.pi, pi_calls |-> 1,
              rudder_command |-> r.action,
              sail_command |-> IF sail_servo < 0
                               THEN sail_controller(sc, app_wind)
                               ELSE Fin(sail_servo)]
        ELSE [pi |-> r.pi, pi_calls |-> 0,
              rudder_command |-> t.rudder_cmd,
              sail_command |-> Fin(t.sails_cmd)]

\* Mutant of guidance_track: the manual sail override is not looked at.
guidance_track_no_override(t, pi, sc, sail_servo, alpha, app_wind) ==
    IF ~t.ref.should_tack
    THEN LET r == pi_controller(pi, t.ref.alpha_star, alpha)
         IN  [pi |-> r.pi, pi_calls |-> 1,
              rudder_command |-> r.action,
              sail_command |-> sail_controller(sc, app_wind)]
    ELSE [pi |-> pi, pi_calls |-> 0,
          rudder_command |-> t.rudder_cmd,
          sail_command |-> Fin(t.sails_cmd)]

\* Mutant of guidance_track: a manual sail override is applied in every cycle.
guidance_track_override_in_tack(t, pi, sc, sail_servo, alpha, app_wind) ==
    IF ~t.ref.should_tack
    THEN LET r == pi_controller(pi, t.ref.alpha_star, alpha)
         IN  [pi |-> r.pi, pi_calls |-> 1,
              rudder_command |-> r.action,
              sail_command |-> IF sail_servo < 0
                               THEN sail_controller(sc, app_wind)
                               ELSE Fin(sail_servo)]
    ELSE [pi |-> pi, pi_calls |-> 0,
          rudder_command |-> t.rudder_cmd,
          sail_command |-> IF sail_servo < 0 THEN Fin(t.sails_cmd)
                           ELSE Fin(sail_servo)]

\* The second if of guidance_module, which tests should_tack again after
\* tack_action: the PI controller and the sail controller or the override.
guidance_track(t, pi, sc, sail_servo, alpha, app_wind) ==
    IF ~t.ref.should_tack
    THEN LET r == pi_controller(pi, t.ref.alpha_star, alpha)
         IN  [pi |-> r.pi, pi_calls |-> 1,
              rudder_command |-> r.action,
              sail_command |-> IF sail_servo < 0
                               THEN sail_controller(sc, app_wind)
                               ELSE Fin(sail_servo)]
    ELSE [pi |-> pi, pi_calls |-> 0,
          rudder_command |-> t.rudder_cmd,
          sail_command |-> Fin(t.sails_cmd)]

\* "update actuator value": a mutant writing the sail to control[1].
set_actuators_sail_at_1(act, rudder_command, sail_command) ==
    [act EXCEPT !.control[0] = rudder_command, !.control[1] = sail_command]

\* "update actuator value": the two controls guidance_module writes.
set_actuators(act, rudder_command, sail_command) ==
    [act EXCEPT !.control[0] = rudder_command, !.control[3] = sail_command]

\* guidance_module(ref_act_p, param_qgc_p, strs_p).  alpha, alpha_yaw, app_wind
\* and twd are the values of get_alpha(), get_alpha_yaw(), get_app_wind() and
\* get_twd() in this cycle.  The result holds the new reference action, the new
\* static data, the new topics and what the cycle did (trace).
guidance_module(ref, td, pi, sc, st, sail_servo, alpha, alpha_yaw, app_wind, twd) ==
    LET t == guidance_tack(ref, td, st, alpha_yaw)
        g == guidance_track(t, pi, sc, sail_servo, alpha, app_wind)
        rudder_command == Fin(rudder_saturation(g.rudder_command))
        sail_command == sail_saturation(g.sail_command)
    IN  [ref |-> t.ref, td |-> t.td, pi |-> g.pi,
         st |-> [st EXCEPT
                   !.actuators = set_actuators(@, rudder_command, sail_command),
                   !.boat_guidance_debug =
                       [alpha |-> alpha,
                        rudder_action |-> rudder_command,
                        sail_action |-> sail_command,
                        twd_mean |-> twd,
                        app_mean |-> app_wind]],
         trace |-> [op |-> "guidance_module",
                    should_tack |-> ref.should_tack,
                    boat_is_tacking |-> td.boat_is_tacking,
                    alpha_star |-> ref.alpha_star,
                    alpha_yaw |-> IF ref.should_tack THEN alpha_yaw ELSE 0,
                    checked |-> t.checked, completed |-> t.completed,
                    started |-> t.started,
                    notify |-> t.notify, log |-> t.log, law |-> t.law,
                    pi_calls |-> g.pi_calls]]

----------------------------------------------------------------------------
(* navigation.c: geodetic transform.  Latitudes and longitudes in degrees * E7,
   altitudes in millimetres, ECEF and NED coordinates in decimetres; the trig
   terms in 1/1000. *)

\* (float)k for an int32_t k: the nearest float (24 bits), ties to even.
F32(k) ==
    LET a == Abs(k)
        ulp == IF a < 16777216 THEN 1 ELSE IF a < 33554432 THEN 2
               ELSE IF a < 67108864 THEN 4 ELSE IF a < 134217728 THEN 8
               ELSE IF a < 268435456 THEN 16 ELSE IF a < 536870912 THEN 32
               ELSE IF a < 1073741824 THEN 64 ELSE 128
        r == a % ulp
        low == a - r
        up == IF 2 * r < ulp THEN low
              ELSE IF 2 * r > ulp THEN low + ulp
              ELSE IF (low \div ulp) % 2 = 0 THEN low ELSE low + ulp
    IN  IF k < 0 THEN -up ELSE up

\* The modelled angles k (degrees * E7) for which the double product
\* (k / 1e7) * 1e7 falls just short of k.
ShortProducts == {449996817}

\* ((double)k) / (double)E7: the double nearest to k / 1e7 degrees; short tells
\* whether its product with 1e7 is below k in magnitude.
deg_of_e7(k) == [e7 |-> k, short |-> k \in ShortProducts]

\* (int32_t)(d * (double)E7): the product, truncated toward zero.
e7_of_deg(d) ==
    IF d.short THEN (IF d.e7 > 0 THEN d.e7 - 1 ELSE d.e7 + 1) ELSE d.e7

\* alt_mm / E3 and (int32_t)(alt * E3) for an altitude of whole metres, which
\* a float holds exactly.
m_of_mm(alt_mm) == Quot(alt_mm, 1000)
mm_of_m(alt_m) == alt_m * 1000

\* (float)cos(degE7_to_rad(k)) and (float)sin(degE7_to_rad(k)) at the modelled
\* angles: kf is (float)k.
cos_degE7(k) ==
    LET kf == F32(k)
    IN  CASE kf \in {449996800, 449996832, 450000000} -> 707
          [] kf \in {70000000, 70003000} -> 993
sin_degE7(k) ==
    LET kf == F32(k)
    IN  CASE kf \in {449996800, 449996832, 450000000} -> 707
          [] kf \in {70000000, 70003000} -> 122

\* geo_to_ecef(lat_d_e7, lon_d_e7, alt_mm): the WGS84 formulas see the angles
\* only as floats; their values at the modelled positions, in single
\* precision.
geo_to_ecef(lat_d_e7, lon_d_e7, alt_mm) ==
    LET p == <<F32(lat_d_e7), F32(lon_d_e7), alt_mm>>
    IN  CASE p = <<449996800, 70000000, 0>> -> <<44839424, 5505589, 44873232>>
          [] p = <<449996800, 70000000, 100000>> -> <<44840124, 5505675, 44873936>>
          [] p = <<449996800, 70003000, 0>> -> <<44839396, 5505823, 44873232>>
          [] p = <<449996800, 70003000, 100000>> -> <<44840096, 5505909, 44873936>>
          [] p = <<449996832, 70000000, 0>> -> <<44839420, 5505589, 44873236>>
          [] p = <<449996832, 70000000, 100000>> -> <<44840120, 5505675, 44873940>>
          [] p = <<449996832, 70003000, 0>> -> <<44839392, 5505823, 44873236>>
          [] p = <<449996832, 70003000, 100000>> -> <<44840088, 5505909, 44873940>>
          [] p = <<450000000, 70000000, 0>> -> <<44839176, 5505559, 44873484>>
          [] p = <<450000000, 70000000, 100000>> -> <<44839876, 5505645, 44874192>>
          [] p = <<450000000, 70003000, 0>> -> <<44839144, 5505793, 44873484>>
          [] p = <<450000000, 70003000, 100000>> -> <<44839844, 5505879, 44874192>>

\* The static data of navigation.c at load time.
nav_init ==
    [cosPhi |-> 0, sinPhi |-> 0, cosLambda |-> 0, sinLambda |-> 0,
     x0_dm |-> 0, y0_dm |-> 0, z0_dm |-> 0,
     ned_to_race_s |-> [sin_mwd |-> 0, cos_mwd |-> 0, n0_dm |-> 0, e0_dm |-> 0,
                        mean_wind_angle_r |-> 0]]

\* set_ref0(_lat0_d_e7_p, _lon0_d_e7_p, _alt0_mm_p)
set_ref0(nv, lat0, lon0, alt0) ==
    LET o == geo_to_ecef(lat0, lon0, alt0)
    IN  [nv EXCEPT !.cosPhi = cos_degE7(lat0), !.sinPhi = sin_degE7(lat0),
                   !.cosLambda = cos_degE7(lon0), !.sinLambda = sin_degE7(lon0),
                   !.x0_dm = o[1], !.y0_dm = o[2], !.z0_dm = o[3]]

\* ecef_to_ned(x_dm_p, y_dm_p, z_dm_p, ...): the float results are truncated
\* by the assignment to int32_t.
ecef_to_ned(nv, x_dm, y_dm, z_dm) ==
    LET u_dm == x_dm - nv.x0_dm
        v_dm == y_dm - nv.y0_dm
        w_dm == z_dm - nv.z0_dm
        t_dm == nv.cosLambda * u_dm + nv.sinLambda * v_dm
    IN  [north_dm |-> Quot(-nv.sinPhi * t_dm + nv.cosPhi * w_dm * 1000, 1000000),
         east_dm |-> Quot(-nv.sinLambda * u_dm + nv.cosLambda * v_dm, 1000),
         down_dm |-> Quot(-nv.cosPhi * t_dm - nv.sinPhi * w_dm * 1000, 1000000)]

\* geo_to_ned(gps_p, ...): gps_p holds lat and lon as doubles in degrees and
\* alt as a float in metres.
geo_to_ned(nv, gps) ==
    LET lat_d_e7 == e7_of_deg(gps.lat)
        lon_d_e7 == e7_of_deg(gps.lon)
        alt_mm == mm_of_m(gps.alt)
        p == geo_to_ecef(lat_d_e7, lon_d_e7, alt_mm)
    IN  ecef_to_ned(nv, p[1], p[2], p[3])

\* (float)cos(mean_wind) and (float)sin(mean_wind) at the modelled angles, in
\* milliradians.
cos_mrad(a) == CASE a = 0 -> 1000 [] a \in {785, -785} -> 707
                 [] a \in {1571, -1571} -> 0
sin_mrad(a) == CASE a = 0 -> 0 [] a = 785 -> 707 [] a = -785 -> -707
                 [] a = 1571 -> 1000 [] a = -1571 -> -1000

\* set_mean_wind_angle(mean_wind)
set_mean_wind_angle(nv, mean_wind) ==
    [nv EXCEPT !.ned_to_race_s.cos_mwd = cos_mrad(mean_wind),
               !.ned_to_race_s.sin_mwd = sin_mrad(mean_wind),
               !.ned_to_race_s.mean_wind_angle_r = mean_wind]

\* get_mean_wind_angle()
get_mean_wind_angle(nv) == nv.ned_to_race_s.mean_wind_angle_r

\* The struct vehicle_global_position_s that set_pos_top_mark builds from
\* degrees * E7 and millimetres.
global_position(lat_d_e7, lon_d_e7, alt_mm) ==
    [lat |-> deg_of_e7(lat_d_e7), lon |-> deg_of_e7(lon_d_e7),
     alt |-> m_of_mm(alt_mm)]

\* set_pos_top_mark(lat_d_e7_p, lon_d_e7_p, alt_mm_p)
set_pos_top_mark(nv, lat_d_e7, lon_d_e7, alt_mm) ==
    LET ned == geo_to_ned(nv, global_position(lat_d_e7, lon_d_e7, alt_mm))
    IN  [nv EXCEPT !.ned_to_race_s.n0_dm = ned.north_dm,
                   !.ned_to_race_s.e0_dm = ned.east_dm]

\* geo_to_race(gps_p, x_dm_p, y_dm_p)
geo_to_race(nv, gps) ==
    LET ned == geo_to_ned(nv, gps)
        r == nv.ned_to_race_s
    IN  [x_dm |-> Quot(-r.cos_mwd * ned.north_dm - r.sin_mwd * ned.east_dm
                         + r.cos_mwd * r.n0_dm + r.sin_mwd * r.e0_dm, 1000),
         y_dm |-> Quot(-r.sin_mwd * ned.north_dm + r.cos_mwd * ned.east_dm
                         + r.sin_mwd * r.n0_dm - r.cos_mwd * r.e0_dm, 1000)]

\* navigation_module(strs_p, lp_p) of autonomous_sailing.c: the local position
\* of the fix.
navigation_module(nv, gps_filtered) ==
    LET ned == geo_to_ned(nv, gps_filtered)
    IN  [x_race_cm |-> ned.east_dm, y_race_cm |-> ned.north_dm]

----------------------------------------------------------------------------
(* State *)

VARIABLES
    ref_act,                \* struct reference_actions_s of the caller
    tack_data,              \* static tack_data of guidance_module.c
    pi_rudder_data,         \* static pi_rudder_data of guidance_module.c
    sail_controller_data,   \* static sail_controller_data of guidance_module.c
    strs,                   \* struct structs_topics_s of the caller
    params,                 \* struct parameters_qgc of the caller
    last,                   \* what the last step did (calls made, values seen)
    tack_origin,            \* alpha_star and helmsman law of the cycle that started the tack
    thread_should_exit,     \* static flag of autonomous_sailing.c
    thread_running,         \* static flag of autonomous_sailing.c
    task,                   \* the daemon tasks: position and local variables
    nav,                    \* static data of navigation.c
    ref0                    \* the origin last given to set_ref0

vars == <<ref_act, tack_data, pi_rudder_data, sail_controller_data, strs,
          params, last, tack_origin, thread_should_exit, thread_running, task,
          nav, ref0>>

daemon_vars == <<thread_should_exit, thread_running, task>>
caller_vars == <<ref_act, strs, params, last, tack_origin>>
nav_vars == <<nav, ref0>>

\* Bound of |sum_error_pi|, in milliradians.
MaxSum == 1600

\* Inputs of the tack machine's specification (Spec).  Attitude estimator
\* readings (roll, yaw) and weather station readings (roll_r, heading_tn):
\* heeled either way at +-170 degrees, heeled over to the other side just
\* across South (+-175 degrees) and 60 degrees past the start (-130 degrees).
AlphaStars == {-785, 785}
AlphaYaws == {0, 300000}
RollStops == {10, 20}
YawStops == {60}
AttReadings ==
    {[roll |-> 88, yaw |-> 2967], [roll |-> -44, yaw |-> -3054],
     [roll |-> -44, yaw |-> -2269],
     [roll |-> -88, yaw |-> -2967], [roll |-> 44, yaw |-> 3054]}
WsReadings ==
    {[roll_r |-> 0, heading_tn |-> 0], [roll_r |-> -45, heading_tn |-> -2269]}

\* Inputs of the controllers' specification (SpecCtl): gain sets given to
\* set_pi_rudder_data as <<p, i, cp, ci, use_conditional, kaw>>, a heading on,
\* left of and right of the reference, an apparent wind from ahead and from
\* astern, an alpha_yaw
\* inside and far outside the helmsman law's band, the sail override disabled,
\* in range and out of range, and two attitude readings a tack apart.
PiConfigs == {<<30, 0, 10, 10, 1, 5>>}
CtlAlphaStars == {785}
CtlAlphas == {-785, 785, 2355}
CtlAppWinds == {0, 3142}
CtlAlphaYaws == {-3000000, 300000}
SailServos == {-1000, 2000}
SailPositions == {0}
CtlAttReadings == {[roll |-> 88, yaw |-> 2967], [roll |-> -44, yaw |-> -2269]}

\* Inputs of the sail trim's specification (SpecSail): numbers of sail
\* positions, apparent wind angles on and off the sector boundaries of 2, 3 and
\* 4 positions, on both sides, and the sail override disabled, in range and out
\* of range.
SailPositionCounts == {1, 2, 3, 4}
SailAngles == {0, 400, -785, 785, 1047, -1047, 1571, -1600, 2356, 3142}
SailOverrides == {-1000, 300, 2000}

\* Inputs of the PI controller's specification (SpecPi): gain sets
\* <<p, i, cp, ci, use_conditional, kaw>> for the conditional mode with and
\* without attenuation of the proportional gain, and for the classical mode,
\* asked for with 0 and with a negative number; headings on and off the
\* reference of 785.
PiModeConfigs ==
    {<<30, 0, 10, 10, 1, 5>>, <<30, 0, 0, 10, 1, 5>>,
     <<30, 0, 10, 10, 0, 5>>, <<20, 10, 10, 10, -1, 5>>}
PiAlphas == {785, 285, 1285, -785}

\* Inputs of the geodetic transform's specification (SpecNav): origins and
\* positions <<degrees * E7, degrees * E7, millimetres>> at and near
\* (45 N, 7 E), mean wind angles in milliradians.
Origins ==
    {<<449996817, 70000000, 0>>, <<450000000, 70000000, 0>>,
     <<450000000, 70003000, 100000>>}
MeanWinds == {0, 785, -1571}
no_ref0 == <<>>

\* The origin in the parameters of the daemon (param_init) and the position
\* its vehicle_global_position topic reports.
DaemonOrigin == <<450000000, 70000000, 0>>
DaemonFix == global_position(450000000, 70000000, 0)

\* Inputs of the tack-completion function's specification (SpecTack), closed
\* under a change of sign: roll and yaw snapshots and readings in milliradians,
\* roll_stop_tack in tenths (0: the roll limit is -+infinity).
SymRolls == {-300, 0, 300}
SymYaws == {-2967, 0, 2967}
SymYawReadings == {-3054, -2000, 0, 2000, 3054}
SymRollStops == {0, 20}

\* Inputs of the helmsman law's specification (SpecHelm): alpha_yaw, in
\* microradians, in every band of the rudder and of the sail curve, on both
\* sides.
HelmAlphas ==
    {-2000000, -600000, -300000, -50000, 0, 50000, 87266, 200000, 270526,
     300000, 340339, 450000, 523598, 600000, 2000000}

actuators_zero == [control |-> [i \in 0 .. NUM_ACTUATOR_CONTROLS - 1 |-> Fin(0)]]

debug_zero ==
    [alpha |-> 0, rudder_action |-> Fin(0), sail_action |-> Fin(0),
     twd_mean |-> 0, app_mean |-> 0]

no_origin == [alpha_star |-> 0, law |-> "none"]

\* Bounds of the daemon's specification: daemon tasks that can be spawned, and
\* control cycles of one daemon.
MaxTasks == 2
MaxCycles == 2
MaxRestarts == 1

Tasks == 1 .. MaxTasks

\* Inputs of the daemon's specification (SpecDaemon).
DaemonAlphas == {0}
DaemonAppWinds == {0}
DaemonSailServos == {-1000, 300}

strs_zero ==
    [att |-> [roll |-> 0, yaw |-> 0],
     boat_weather_station |-> [roll_r |-> 0, heading_tn |-> 0],
     actuators |-> actuators_zero,
     boat_guidance_debug |-> debug_zero]

\* A task not spawned yet.  published is the last command the task gave to
\* orb_publish (n_published counts them), nonzero_published tells whether any
\* of them held a control that is not 0, delivered is the last command whose
\* orb_publish succeeded.  iter lists the calls of the current iteration of the
\* loop, in order.
task_none ==
    [pc |-> "none", actuators_ok |-> FALSE,
     ref_act |-> [alpha_star |-> 0, should_tack |-> FALSE],
     strs |-> strs_zero, params |-> [sail_servo |-> -1000],
     cycles |-> 0, published |-> actuators_zero, n_published |-> 0,
     nonzero_published |-> FALSE, delivered |-> actuators_zero,
     iter |-> <<>>, restarts |-> 0,
     local_pos_r |-> [x_race_cm |-> 0, y_race_cm |-> 0],
     set_ref0_calls |-> 0, ned_before_ref0 |-> FALSE]

Init ==
    /\ ref_act = [alpha_star |-> 785, should_tack |-> FALSE]
    /\ tack_data = tack_data_init
    /\ pi_rudder_data = pi_rudder_data_init
    /\ sail_controller_data = sail_controller_data_init
    /\ strs = strs_zero
    /\ params = [sail_servo |-> -1000]
    /\ last = [op |-> "init"]
    /\ tack_origin = no_origin
    /\ thread_should_exit = FALSE
    /\ thread_running = FALSE
    /\ task = [t \in Tasks |-> task_none]
    /\ nav = nav_init
    /\ ref0 = no_ref0

----------------------------------------------------------------------------
(* Steps of the environment *)

\* The path planner gives a new reference action.
PathPlanning(a, t) ==
    /\ ref_act' = [alpha_star |-> a, should_tack |-> t]
    /\ last' = [op |-> "path_planning"]
    /\ UNCHANGED <<tack_data, pi_rudder_data, sail_controller_data, strs,
                   params, tack_origin>>
    /\ UNCHANGED daemon_vars
    /\ UNCHANGED nav_vars

\* A new attitude estimate is copied into strs.
AttUpdate(m) ==
    /\ strs' = [strs EXCEPT !.att = m]
    /\ last' = [op |-> "att"]
    /\ UNCHANGED <<ref_act, tack_data, pi_rudder_data, sail_controller_data,
                   params, tack_origin>>
    /\ UNCHANGED daemon_vars
    /\ UNCHANGED nav_vars

\* A new weather station reading is copied into strs.
WsUpdate(m) ==
    /\ strs' = [strs EXCEPT !.boat_weather_station = m]
    /\ last' = [op |-> "ws"]
    /\ UNCHANGED <<ref_act, tack_data, pi_rudder_data, sail_controller_data,
                   params, tack_origin>>
    /\ UNCHANGED daemon_vars
    /\ UNCHANGED nav_vars

\* The parameter store gives a new manual sail override.
SailServoUpdate(v) ==
    /\ params' = [params EXCEPT !.sail_servo = v]
    /\ last' = [op |-> "sail_servo"]
    /\ UNCHANGED <<ref_act, tack_data, pi_rudder_data, sail_controller_data,
                   strs, tack_origin>>
    /\ UNCHANGED daemon_vars
    /\ UNCHANGED nav_vars

----------------------------------------------------------------------------
(* Steps of the guidance core *)

SetStopTack(r, y) ==
    /\ tack_data' = set_stop_tack(tack_data, r, y)
    /\ last' = [op |-> "set_stop_tack"]
    /\ UNCHANGED <<ref_act, pi_rudder_data, sail_controller_data, strs, params,
                   tack_origin>>
    /\ UNCHANGED daemon_vars
    /\ UNCHANGED nav_vars

SetSailPositions(n) ==
    /\ sail_controller_data' = set_sail_positions(n)
    /\ last' = [op |-> "set_sail_positions", num |-> n]
    /\ UNCHANGED <<ref_act, tack_data, pi_rudder_data, strs, params, tack_origin>>
    /\ UNCHANGED daemon_vars
    /\ UNCHANGED nav_vars

SetPiRudderData(c) ==
    LET r == set_pi_rudder_data(pi_rudder_data, c[1], c[2], c[3], c[4], c[5], c[6])
    IN  /\ pi_rudder_data' = r.pi
        /\ last' = [op |-> "set_pi_rudder_data", args |-> c,
                    before |-> [last_command |-> pi_rudder_data.last_command,
                                sum_error_pi |-> pi_rudder_data.sum_error_pi],
                    log |-> r.log]
        /\ UNCHANGED <<ref_act, tack_data, sail_controller_data, strs, params,
                       tack_origin>>
        /\ UNCHANGED daemon_vars
        /\ UNCHANGED nav_vars

GuidanceCycle(alpha, alpha_yaw, app_wind, twd) ==
    LET r == guidance_module(ref_act, tack_data, pi_rudder_data,
                             sail_controller_data, strs, params.sail_servo,
                             alpha, alpha_yaw, app_wind, twd)
    IN  /\ Abs(r.pi.sum_error_pi) <= MaxSum
        /\ ref_act' = r.ref
        /\ tack_data' = r.td
        /\ pi_rudder_data' = r.pi
        /\ strs' = r.st
        /\ last' = r.trace
        /\ tack_origin' = IF r.trace.started
                          THEN [alpha_star |-> ref_act.alpha_star,
                                law |-> r.trace.law]
                          ELSE tack_origin
        /\ UNCHANGED <<sail_controller_data, params>>
        /\ UNCHANGED daemon_vars
        /\ UNCHANGED nav_vars

\* The tack machine and its environment.  The boat holds its reference heading
\* (alpha = alpha_star) and the gains, the sail positions and the sail override
\* keep their initial values.
Next ==
    \/ \E a \in AlphaStars, t \in BOOLEAN : PathPlanning(a, t)
    \/ \E m \in AttReadings : AttUpdate(m)
    \/ \E m \in WsReadings : WsUpdate(m)
    \/ \E r \in RollStops, y \in YawStops : SetStopTack(r, y)
    \/ \E alpha_yaw \in AlphaYaws :
          GuidanceCycle(ref_act.alpha_star, alpha_yaw, 0, 0)

Spec == Init /\ [][Next]_vars

\* The controllers and their environment: gains, sail positions and sail
\* override change, the boat is off its reference heading, and the attitude
\* estimator alone reports the tack.
NextCtl ==
    \/ \E a \in CtlAlphaStars, t \in BOOLEAN : PathPlanning(a, t)
    \/ \E m \in CtlAttReadings : AttUpdate(m)
    \/ \E v \in SailServos : SailServoUpdate(v)
    \/ \E n \in SailPositions : SetSailPositions(n)
    \/ \E c \in PiConfigs : SetPiRudderData(c)
    \/ \E alpha \in CtlAlphas, alpha_yaw \in CtlAlphaYaws,
          app_wind \in CtlAppWinds :
          GuidanceCycle(alpha, alpha_yaw, app_wind, 0)

SpecCtl == Init /\ [][NextCtl]_vars

\* The sail trim and its environment: the boat tracks its reference heading,
\* the number of sail positions, the sail override and the apparent wind change.
NextSail ==
    \/ \E n \in SailPositionCounts : SetSailPositions(n)
    \/ \E v \in SailOverrides : SailServoUpdate(v)
    \/ \E app_wind \in SailAngles :
          GuidanceCycle(ref_act.alpha_star, 0, app_wind, 0)

SpecSail == Init /\ [][NextSail]_vars

\* The callers of navigation.c.
SetRef0(o) ==
    /\ nav' = set_ref0(nav, o[1], o[2], o[3])
    /\ ref0' = o
    /\ last' = [op |-> "set_ref0"]
    /\ UNCHANGED <<ref_act, tack_data, pi_rudder_data, sail_controller_data,
                   strs, params, tack_origin>>
    /\ UNCHANGED daemon_vars

SetMeanWindAngle(mean_wind) ==
    /\ nav' = set_mean_wind_angle(nav, mean_wind)
    /\ last' = [op |-> "set_mean_wind_angle"]
    /\ UNCHANGED <<ref_act, tack_data, pi_rudder_data, sail_controller_data,
                   strs, params, tack_origin, ref0>>
    /\ UNCHANGED daemon_vars

SetPosTopMark(o) ==
    /\ nav' = set_pos_top_mark(nav, o[1], o[2], o[3])
    /\ last' = [op |-> "set_pos_top_mark"]
    /\ UNCHANGED <<ref_act, tack_data, pi_rudder_data, sail_controller_data,
                   strs, params, tack_origin, ref0>>
    /\ UNCHANGED daemon_vars

\* geo_to_ned on the fix located at position o.
GeoToNed(o) ==
    /\ last' = [op |-> "geo_to_ned", at |-> o,
                ned |-> geo_to_ned(nav, global_position(o[1], o[2], o[3]))]
    /\ UNCHANGED <<ref_act, tack_data, pi_rudder_data, sail_controller_data,
                   strs, params, tack_origin>>
    /\ UNCHANGED daemon_vars
    /\ UNCHANGED nav_vars

\* geo_to_race on the fix located at position o.
GeoToRace(o) ==
    /\ last' = [op |-> "geo_to_race", at |-> o,
                race |-> geo_to_race(nav, global_position(o[1], o[2], o[3]))]
    /\ UNCHANGED <<ref_act, tack_data, pi_rudder_data, sail_controller_data,
                   strs, params, tack_origin>>
    /\ UNCHANGED daemon_vars
    /\ UNCHANGED nav_vars

NextNav ==
    \/ \E o \in Origins : SetRef0(o)
    \/ \E a \in MeanWinds : SetMeanWindAngle(a)
    \/ \E o \in Origins : SetPosTopMark(o)
    \/ \E o \in Origins : GeoToNed(o)
    \/ \E o \in Origins : GeoToRace(o)

SpecNav == Init /\ [][NextNav]_vars

\* is_tack_completed as a function of tack_data and of the readings: tack_data
\* is drawn from SymRolls, SymYaws, SymRollStops and both turn directions, and
\* every step reads new attitude and weather-station values and evaluates the
\* check.
InitTack ==
    /\ \E r0 \in SymRolls, r1 \in SymRolls, y0 \in SymYaws, y1 \in SymYaws \ {0},
          dir \in {-RUDDER_45_LEFT, RUDDER_45_LEFT}, rs \in SymRollStops :
          tack_data = [boat_is_tacking |-> TRUE,
                       tack_rudder_command |-> dir,
                       roll_before_tack |-> [i \in {0, 1} |-> IF i = 0 THEN r0 ELSE r1],
                       yaw_before_tack |-> [i \in {0, 1} |-> IF i = 0 THEN y0 ELSE y1],
                       roll_stop_tack |-> rs,
                       yaw_stop_tack |-> 1040]
    /\ ref_act = [alpha_star |-> 785, should_tack |-> TRUE]
    /\ pi_rudder_data = pi_rudder_data_init
    /\ sail_controller_data = sail_controller_data_init
    /\ strs = strs_zero
    /\ params = [sail_servo |-> -1000]
    /\ last = [op |-> "init"]
    /\ tack_origin = no_origin
    /\ thread_should_exit = FALSE
    /\ thread_running = FALSE
    /\ task = [t \in Tasks |-> task_none]
    /\ nav = nav_init
    /\ ref0 = no_ref0

IsTackCompleted(att, ws) ==
    /\ strs' = [strs EXCEPT !.att = att, !.boat_weather_station = ws]
    /\ last' = [op |-> "is_tack_completed",
                completed |-> is_tack_completed(tack_data, strs')]
    /\ UNCHANGED <<ref_act, tack_data, pi_rudder_data, sail_controller_data,
                   params, tack_origin>>
    /\ UNCHANGED daemon_vars
    /\ UNCHANGED nav_vars

NextTack ==
    \E r \in SymRolls, y \in SymYawReadings, wr \in SymRolls \ {0},
       wy \in SymYawReadings \ {0} :
        IsTackCompleted([roll |-> r, yaw |-> y], [roll_r |-> wr, heading_tn |-> wy])

SpecTack == InitTack /\ [][NextTack]_vars

\* The helmsman law and its environment: tacks are asked for on either haul and
\* never complete (the boat does not heel), alpha_yaw changes from cycle to
\* cycle.
NextHelm ==
    \/ \E a \in AlphaStars, t \in BOOLEAN : PathPlanning(a, t)
    \/ \E alpha_yaw \in HelmAlphas :
          GuidanceCycle(ref_act.alpha_star, alpha_yaw, 0, 0)

SpecHelm == Init /\ [][NextHelm]_vars

\* The PI controller and its environment: the boat is not asked to tack, the
\* gains and the mode change, the heading is on or off the reference.
NextPi ==
    \/ \E c \in PiModeConfigs : SetPiRudderData(c)
    \/ \E alpha \in PiAlphas : GuidanceCycle(alpha, 0, 0, 0)

SpecPi == Init /\ [][NextPi]_vars

----------------------------------------------------------------------------
(* autonomous_sailing.c: the start/stop commands and the daemon *)

\* autonomous_sailing_main with "start": spawns as_daemon_thread_main unless
\* thread_running is set.
CmdStart(t) ==
    /\ task[t].pc = "none"
    /\ \A u \in Tasks : u < t => task[u].pc # "none"
    /\ ~thread_running
    /\ thread_should_exit' = FALSE
    /\ task' = [task EXCEPT ![t].pc = "init"]
    /\ UNCHANGED <<thread_running, tack_data, pi_rudder_data,
                   sail_controller_data>>
    /\ UNCHANGED caller_vars
    /\ UNCHANGED nav_vars

\* autonomous_sailing_main with "start" while thread_running is set: "daemon
\* already running", nothing changes.
CmdStartRefused ==
    /\ thread_running
    /\ UNCHANGED vars

\* autonomous_sailing_main with "stop".
CmdStop ==
    /\ thread_should_exit' = TRUE
    /\ UNCHANGED <<thread_running, task, tack_data, pi_rudder_data,
                   sail_controller_data>>
    /\ UNCHANGED caller_vars
    /\ UNCHANGED nav_vars

\* The command a task gives to orb_publish (or to orb_advertise); ok tells
\* whether the call succeeds.  No caller looks at the result.
publish(tk, act, ok) ==
    [tk EXCEPT !.published = act,
               !.delivered = IF ok THEN act ELSE @,
               !.n_published = @ + 1,
               !.nonzero_published =
                   @ \/ \E i \in DOMAIN act.control : act.control[i] # Fin(0)]

\* A daemon that starts its loop without setting the reference of the NED
\* frame.
daemon_skip_set_ref0(tk, nv, origin, o) ==
    [task |-> tk, nav |-> nv, ref0 |-> origin]

\* set_ref0(&(params.lat0), &(params.lon0), &(params.alt0)) in
\* as_daemon_thread_main.
daemon_set_ref0(tk, nv, origin, o) ==
    [task |-> [tk EXCEPT !.set_ref0_calls = @ + 1],
     nav |-> set_ref0(nv, o[1], o[2], o[3]),
     ref0 |-> o]

\* as_daemon_thread_main up to the start of the loop: the local variables, and
\* actuators_init, which zeroes the controls and advertises them (the first
\* command on the topic); when it fails thread_should_exit is set.
DaemonInit(t, ok) ==
    /\ task[t].pc = "init"
    /\ LET r == daemon_set_ref0(
                    publish([task[t] EXCEPT
                               !.pc = "set_running",
                               !.actuators_ok = ok,
                               !.ref_act = [alpha_star |-> 30000,
                                            should_tack |-> FALSE],
                               !.strs.actuators = actuators_zero],
                            actuators_zero, ok),
                    nav, ref0, DaemonOrigin)
       IN  /\ task' = [task EXCEPT ![t] = r.task]
           /\ nav' = r.nav
           /\ ref0' = r.ref0
    /\ thread_should_exit' = IF ok THEN thread_should_exit ELSE TRUE
    /\ UNCHANGED <<thread_running, tack_data, pi_rudder_data,
                   sail_controller_data>>
    /\ UNCHANGED caller_vars

\* thread_running = true
DaemonSetRunning(t) ==
    /\ task[t].pc = "set_running"
    /\ thread_running' = TRUE
    /\ task' = [task EXCEPT ![t].pc = "test"]
    /\ UNCHANGED <<thread_should_exit, tack_data, pi_rudder_data,
                   sail_controller_data>>
    /\ UNCHANGED caller_vars
    /\ UNCHANGED nav_vars

\* while(!thread_should_exit)
DaemonTest(t) ==
    /\ task[t].pc = "test"
    /\ task' = [task EXCEPT ![t].pc = IF thread_should_exit THEN "failsafe"
                                      ELSE "poll"]
    /\ UNCHANGED <<thread_should_exit, thread_running, tack_data,
                   pi_rudder_data, sail_controller_data>>
    /\ UNCHANGED caller_vars
    /\ UNCHANGED nav_vars

\* poll() and the handling of its result: an error restarts the loop
\* (continue); data and the timeout go on to the parameters.  New
\* vehicle_global_position data (gps_filtered: fds[1].revents & POLLIN) runs
\* navigation_module and path_planning; the other topics feed update_cog and
\* update_twd.
DaemonPoll(t, poll_ret, gps_filtered) ==
    /\ task[t].pc = "poll"
    /\ task[t].cycles < MaxCycles
    /\ task' = [task EXCEPT ![t].pc = IF poll_ret < 0 THEN "test" ELSE "params",
                            ![t].cycles = @ + 1,
                            ![t].iter =
                                IF poll_ret > 0 /\ gps_filtered
                                THEN <<"poll", "navigation_module",
                                       "path_planning">>
                                ELSE <<"poll">>,
                            ![t].local_pos_r =
                                IF poll_ret > 0 /\ gps_filtered
                                THEN navigation_module(nav, DaemonFix)
                                ELSE @,
                            ![t].ned_before_ref0 =
                                @ \/ (poll_ret > 0 /\ gps_filtered
                                        /\ task[t].set_ref0_calls = 0)]
    /\ UNCHANGED <<thread_should_exit, thread_running, tack_data,
                   pi_rudder_data, sail_controller_data>>
    /\ UNCHANGED caller_vars
    /\ UNCHANGED nav_vars

\* param_check_update: the parameter store may give a new sail override.
DaemonParams(t, v) ==
    /\ task[t].pc = "params"
    /\ task' = [task EXCEPT ![t].pc = "guidance", ![t].params.sail_servo = v,
                            ![t].iter = Append(@, "param_check_update")]
    /\ UNCHANGED <<thread_should_exit, thread_running, tack_data,
                   pi_rudder_data, sail_controller_data>>
    /\ UNCHANGED caller_vars
    /\ UNCHANGED nav_vars

\* guidance_module(&ref_act, &params, &strs)
DaemonGuidance(t, alpha, app_wind) ==
    /\ task[t].pc = "guidance"
    /\ LET r == guidance_module(task[t].ref_act, tack_data, pi_rudder_data,
                                sail_controller_data, task[t].strs,
                                task[t].params.sail_servo, alpha, 0, app_wind, 0)
       IN  /\ task' = [task EXCEPT ![t].pc = "publish",
                                   ![t].ref_act = r.ref,
                                   ![t].strs = r.st,
                                   ![t].iter = Append(@, "guidance_module")]
           /\ tack_data' = r.td
           /\ pi_rudder_data' = r.pi
    /\ UNCHANGED <<thread_should_exit, thread_running, sail_controller_data>>
    /\ UNCHANGED caller_vars
    /\ UNCHANGED nav_vars

\* orb_publish of the commands at the end of the loop body.
DaemonPublish(t, ok) ==
    /\ task[t].pc = "publish"
    /\ task' = [task EXCEPT ![t] =
                  publish([@ EXCEPT !.pc = "test",
                                    !.iter = Append(@, "orb_publish")],
                          task[t].strs.actuators, ok)]
    /\ UNCHANGED <<thread_should_exit, thread_running, tack_data,
                   pi_rudder_data, sail_controller_data>>
    /\ UNCHANGED caller_vars
    /\ UNCHANGED nav_vars

\* A daemon that publishes the commands of its last cycle once more on exit.
failsafe_actuators_keep(act) ==
    act

\* "kill all outputs": the controls the daemon publishes after the loop.
failsafe_actuators(act) ==
    [act EXCEPT !.control = [i \in DOMAIN act.control |-> Fin(0)]]

DaemonFailsafe(t, ok) ==
    /\ task[t].pc = "failsafe"
    /\ LET act == failsafe_actuators(task[t].strs.actuators)
       IN  task' = [task EXCEPT ![t] =
                      publish([@ EXCEPT !.pc = "exit", !.strs.actuators = act],
                              act, ok)]
    /\ UNCHANGED <<thread_should_exit, thread_running, tack_data,
                   pi_rudder_data, sail_controller_data>>
    /\ UNCHANGED caller_vars
    /\ UNCHANGED nav_vars

\* thread_running = false; return 0
DaemonExit(t) ==
    /\ task[t].pc = "exit"
    /\ thread_running' = FALSE
    /\ task' = [task EXCEPT ![t].pc = "done"]
    /\ UNCHANGED <<thread_should_exit, tack_data, pi_rudder_data,
                   sail_controller_data>>
    /\ UNCHANGED caller_vars
    /\ UNCHANGED nav_vars

NextDaemon ==
    \/ \E t \in Tasks : CmdStart(t)
    \/ CmdStartRefused
    \/ CmdStop
    \/ \E t \in Tasks, ok \in BOOLEAN : DaemonInit(t, ok)
    \/ \E t \in Tasks : DaemonSetRunning(t)
    \/ \E t \in Tasks : DaemonTest(t)
    \/ \E t \in Tasks, poll_ret \in {-1, 0, 1}, gps_filtered \in BOOLEAN :
          DaemonPoll(t, poll_ret, gps_filtered)
    \/ \E t \in Tasks, v \in DaemonSailServos : DaemonParams(t, v)
    \/ \E t \in Tasks, alpha \in DaemonAlphas, app_wind \in DaemonAppWinds :
          DaemonGuidance(t, alpha, app_wind)
    \/ \E t \in Tasks, ok \in BOOLEAN : DaemonPublish(t, ok)
    \/ \E t \in Tasks, ok \in BOOLEAN : DaemonFailsafe(t, ok)
    \/ \E t \in Tasks : DaemonExit(t)

SpecDaemon == Init /\ [][NextDaemon]_vars

\* autonomous_sailing_main with "start" once an earlier daemon has terminated:
\* the new task takes the place of the terminated one.
CmdRestart(t) ==
    /\ task[t].pc = "done"
    /\ task[t].restarts < MaxRestarts
    /\ ~thread_running
    /\ thread_should_exit' = FALSE
    /\ task' = [task EXCEPT ![t] = [task_none EXCEPT
                                      !.pc = "init",
                                      !.restarts = task[t].restarts + 1]]
    /\ UNCHANGED <<thread_running, tack_data, pi_rudder_data,
                   sail_controller_data>>
    /\ UNCHANGED caller_vars
    /\ UNCHANGED nav_vars

\* The iterations of the loop after the MaxCycles that are followed in full:
\* poll() fails and the loop restarts (continue), which changes nothing but the
\* position of the task.
DaemonPollError(t) ==
    /\ task[t].pc = "poll"
    /\ task[t].cycles = MaxCycles
    /\ task' = [task EXCEPT ![t].pc = "test", ![t].iter = <<"poll">>]
    /\ UNCHANGED <<thread_should_exit, thread_running, tack_data,
                   pi_rudder_data, sail_controller_data>>
    /\ UNCHANGED caller_vars
    /\ UNCHANGED nav_vars

\* The steps of daemon task t, on a bus that accepts every command: poll
\* fails or brings new vehicle_global_position data, the sail override stays
\* off.
DaemonStep(t) ==
    \/ DaemonInit(t, TRUE)
    \/ DaemonSetRunning(t)
    \/ DaemonTest(t)
    \/ \E poll_ret \in {-1, 1} : DaemonPoll(t, poll_ret, TRUE)
    \/ DaemonPollError(t)
    \/ DaemonParams(t, -1000)
    \/ \E alpha \in DaemonAlphas, app_wind \in DaemonAppWinds :
          DaemonGuidance(t, alpha, app_wind)
    \/ DaemonPublish(t, TRUE)
    \/ DaemonFailsafe(t, TRUE)
    \/ DaemonExit(t)

NextDaemonFair ==
    \/ \E t \in Tasks : CmdStart(t)
    \/ \E t \in Tasks : CmdRestart(t)
    \/ CmdStartRefused
    \/ CmdStop
    \/ \E t \in Tasks : DaemonStep(t)

\* Fair scheduling: a spawned task that can take a step eventually takes one
\* (poll returns within its timeout, no other call of the loop blocks).  The
\* commands are given by the user and are under no obligation.
SpecDaemonFair ==
    Init /\ [][NextDaemonFair]_vars /\ \A t \in Tasks : WF_vars(DaemonStep(t))

-----------------------------------------------------------------------------
(* parser_200WX.c: the NMEA parsers.  A buffer is a sequence of characters  *)
(* (strings of length one); the C index i is the element i + 1.  A number   *)
(* extracted from the buffer is kept in hundredths.                         *)

SAFETY_COUNTER_EXTRACT == 15
MIN_BYTE_FOR_PARSING_LONG_MSG == 30
MIN_BYTE_FOR_PARSING_SHORT_MSG == 8

least(S) == CHOOSE x \in S : \A y \in S : x <= y

\* op(v) with v evaluated once, before op is applied (a C function gets the
\* values of its arguments).
by_value(v, op(_)) == CHOOSE r \in {op(x) : x \in {v}} : TRUE

digit_value(c) ==
    CASE c = "0" -> 0 [] c = "1" -> 1 [] c = "2" -> 2 [] c = "3" -> 3
      [] c = "4" -> 4 [] c = "5" -> 5 [] c = "6" -> 6 [] c = "7" -> 7
      [] c = "8" -> 8 [] c = "9" -> 9 [] OTHER -> -1

\* The digits of a decimal number from position k of str: acc is the number
\* made of the digits kept so far, decimals is -1 before the point and the
\* count of digits kept after it otherwise (two are kept, the others dropped).
\* The scan stops at the first character that cannot continue the number.
RECURSIVE atof_digits(_, _, _, _)
atof_digits(str, k, acc, decimals) ==
    IF k > Len(str) THEN [acc |-> acc, decimals |-> decimals]
    ELSE IF digit_value(str[k]) >= 0
    THEN IF decimals = -1
         THEN atof_digits(str, k + 1, 10 * acc + digit_value(str[k]), -1)
         ELSE IF decimals < 2
         THEN atof_digits(str, k + 1, 10 * acc + digit_value(str[k]),
                          decimals + 1)
         ELSE atof_digits(str, k + 1, acc, decimals)
    ELSE IF str[k] = "." /\ decimals = -1
    THEN atof_digits(str, k + 1, acc, 0)
    ELSE [acc |-> acc, decimals |-> decimals]

\* atof of the C library, in hundredths: optional sign, digits, optional point
\* and digits; a string that starts with no number gives 0.
atof(str) ==
    LET signed == Len(str) > 0 /\ str[1] \in {"-", "+"}
        r == atof_digits(str, IF signed THEN 2 ELSE 1, 0, -1)
        scaled == CASE r.decimals <= 0 -> 100 * r.acc
                    [] r.decimals = 1 -> 10 * r.acc
                    [] OTHER -> r.acc
    IN  IF signed /\ str[1] = "-" THEN 0 - scaled ELSE scaled

\* The first index i >= start_index at which the buffer holds str in full
\* before buffer_length, or -1.
find_string(start_index, buffer, buffer_length, str) ==
    LET stop_index == buffer_length - Len(str) + 1
        found == {i \in start_index..(stop_index - 1) :
                     \A k \in 1..Len(str) : buffer[i + k] = str[k]}
    IN  IF found = {} THEN -1 ELSE least(found)

\* The while loop of the two extract functions from index i with counter
\* characters copied: it stops at a comma, at buffer_length, or when the
\* counter reaches SAFETY_COUNTER_EXTRACT (safety).
RECURSIVE extract_scan(_, _, _, _)
extract_scan(i, counter, buffer, buffer_length) ==
    IF i < buffer_length /\ buffer[i + 1] # ","
    THEN IF counter + 1 >= SAFETY_COUNTER_EXTRACT
         THEN [i |-> i + 1, counter |-> counter + 1, safety |-> TRUE]
         ELSE extract_scan(i + 1, counter + 1, buffer, buffer_length)
    ELSE [i |-> i, counter |-> counter, safety |-> FALSE]

\* An extract function that takes a field of up to 15 characters.
f_extract_until_coma_long(index, buffer, buffer_length) ==
    LET stop == {i \in index..buffer_length :
                    i >= buffer_length \/ buffer[i + 1] = ","}
        i == IF stop = {} THEN index ELSE least(stop)
    IN  IF i = index \/ i >= buffer_length \/ i - index > SAFETY_COUNTER_EXTRACT
        THEN [ok |-> FALSE, index |-> index, ret_val |-> 0,
              top |-> IF i - index > SAFETY_COUNTER_EXTRACT
                      THEN SAFETY_COUNTER_EXTRACT - 1 ELSE i - index - 1]
        ELSE [ok |-> TRUE, index |-> i,
              ret_val |-> atof(SubSeq(buffer, index + 1, i)),
              top |-> i - index]

\* f_extract_until_coma: ok is the value returned, index is *index_pointer
\* and ret_val is *ret_val_pointer after the call, top is the highest index of
\* temp_char written (-1 when nothing was written).
f_extract_until_coma(index, buffer, buffer_length) ==
    LET s == extract_scan(index, 0, buffer, buffer_length)
    IN  IF s.safety
        THEN [ok |-> FALSE, index |-> index, ret_val |-> 0,
              top |-> s.counter - 1]
        ELSE IF s.i = index \/ s.i >= buffer_length
        THEN [ok |-> FALSE, index |-> index, ret_val |-> 0,
              top |-> s.counter - 1]
        ELSE [ok |-> TRUE, index |-> s.i,
              ret_val |-> atof(SubSeq(buffer, index + 1, s.i)),
              top |-> s.counter]

\* d_extract_until_coma: the same code with a double result.
d_extract_until_coma(index, buffer, buffer_length) ==
    LET s == extract_scan(index, 0, buffer, buffer_length)
    IN  IF s.safety
        THEN [ok |-> FALSE, index |-> index, ret_val |-> 0,
              top |-> s.counter - 1]
        ELSE IF s.i = index \/ s.i >= buffer_length
        THEN [ok |-> FALSE, index |-> index, ret_val |-> 0,
              top |-> s.counter - 1]
        ELSE [ok |-> TRUE, index |-> s.i,
              ret_val |-> atof(SubSeq(buffer, index + 1, s.i)),
              top |-> s.counter]

\* The first comma at or after start_index and before buffer_length, or -1.
jump_to_next_coma(start_index, buffer, buffer_length) ==
    LET comas == {i \in start_index..(buffer_length - 1) : buffer[i + 1] = ","}
    IN  IF comas = {} THEN -1 ELSE least(comas)

\* The two extract functions on their own: a field of n characters after
\* "A," in the buffer, followed by a comma or by nothing, with every length of
\* the buffer and every start index.
MaxField == 16

field(n) == [k \in 1..n |-> IF k = n THEN "5" ELSE IF k = n - 1 THEN "."
                            ELSE IF k = n - 2 THEN "1" ELSE "0"]

ExtractBuffers ==
    {<<"A", ",">> \o field(n) \o tail :
        n \in 0..MaxField, tail \in {<< >>, <<",", "7">>}}

\* The caller has a buffer, its length and a start index.
InitExtract ==
    /\ ref_act = [alpha_star |-> 785, should_tack |-> FALSE]
    /\ tack_data = tack_data_init
    /\ pi_rudder_data = pi_rudder_data_init
    /\ sail_controller_data = sail_controller_data_init
    /\ strs = strs_zero
    /\ params = [sail_servo |-> -1000]
    /\ \E buffer \in ExtractBuffers :
          \E buffer_length \in 0..Len(buffer), index \in 0..Len(buffer) :
             last = [op |-> "extract", buffer |-> buffer,
                     buffer_length |-> buffer_length, index |-> index]
    /\ tack_origin = no_origin
    /\ thread_should_exit = FALSE
    /\ thread_running = FALSE
    /\ task = [t \in Tasks |-> task_none]
    /\ nav = nav_init
    /\ ref0 = no_ref0

FExtractUntilComa ==
    /\ last.op = "extract"
    /\ last' = [last EXCEPT !.op = "f_extract_until_coma"] @@
                [r |-> f_extract_until_coma(last.index, last.buffer,
                                            last.buffer_length)]
    /\ UNCHANGED <<ref_act, tack_data, pi_rudder_data, sail_controller_data,
                   strs, params, tack_origin>>
    /\ UNCHANGED daemon_vars
    /\ UNCHANGED nav_vars

DExtractUntilComa ==
    /\ last.op = "extract"
    /\ last' = [last EXCEPT !.op = "d_extract_until_coma"] @@
                [r |-> d_extract_until_coma(last.index, last.buffer,
                                            last.buffer_length)]
    /\ UNCHANGED <<ref_act, tack_data, pi_rudder_data, sail_controller_data,
                   strs, params, tack_origin>>
    /\ UNCHANGED daemon_vars
    /\ UNCHANGED nav_vars

NextExtract ==
    \/ FExtractUntilComa
    \/ DExtractUntilComa

SpecExtract == InitExtract /\ [][NextExtract]_vars

\* A direct read buffer[i] of a parser.  The array holds Len(buffer) bytes, of
\* which the first buffer_length were received; a read past the array gives
\* whatever byte the memory holds there (stale).
rd(buffer, i, stale) ==
    IF i >= 0 /\ i < Len(buffer) THEN buffer[i + 1] ELSE stale

YXXDR == <<"Y", "X", "X", "D", "R">>
PTCH == <<"P", "T", "C", "H">>
WIVWR == <<"W", "I", "V", "W", "R">>
HCHDT == <<"H", "C", "H", "D", "T">>
WIMWD == <<"W", "I", "M", "W", "D">>
GP == <<"G", "P">>

\* The topic structures after the memset of parser_variables_init.
att_raw_zero ==
    [roll |-> 0, pitch |-> 0, yaw |-> 0,
     rollspeed |-> 0, pitchspeed |-> 0, yawspeed |-> 0]

wind_sailing_zero ==
    [angle_apparent |-> 0, speed_apparent |-> 0,
     angle_true |-> 0, speed_true |-> 0]

gps_raw_zero ==
    [lat |-> 0, lon |-> 0, alt |-> 0, satellites_used |-> 0, eph |-> 0,
     fix_type |-> 0, vel_n_m_s |-> 0, cog_rad |-> 0]

\* The state of a parser in its for loop: the index i, the structure it fills,
\* the indices of the buffer it read directly (reads), the sentences whose data
\* it stored (stored: the index of the header found and, for xdr_parser, the
\* index of the PTCH used), and whether the call returns.

\* xdr_parser: the body of the for loop for the YXXDR found at index f.
xdr_sentence(s, f, buffer, buffer_length, stale) ==
    LET e1 == f_extract_until_coma(f + 8, buffer, buffer_length)
        i2 == e1.index + 1
        s2 == [s EXCEPT !.reads = @ \cup {i2}]
    IN  IF ~e1.ok THEN [s EXCEPT !.i = f + 8]
        ELSE IF rd(buffer, i2, stale) = "D"
        THEN LET app_i == find_string(i2 + 2, buffer, buffer_length, PTCH)
             IN  IF app_i # -1
                 THEN \* type B: pitch and roll
                      LET e2 == f_extract_until_coma(app_i + 7, buffer,
                                                     buffer_length)
                      IN  IF e2.ok
                          THEN [s2 EXCEPT !.i = e2.index,
                                          !.att.roll = e2.ret_val,
                                          !.att.pitch = e1.ret_val,
                                          !.stored = @ \cup
                                             {[at |-> f, ptch |-> app_i]}]
                          ELSE [s2 EXCEPT !.i = app_i + 7]
                 ELSE \* type E: roll, pitch and yaw rates
                      LET e2 == f_extract_until_coma(i2 + 9, buffer,
                                                     buffer_length)
                          e3 == f_extract_until_coma(e2.index + 10, buffer,
                                                     buffer_length)
                      IN  IF ~e2.ok THEN [s2 EXCEPT !.i = i2 + 9]
                          ELSE IF e3.ok
                          THEN [s2 EXCEPT !.i = e3.index,
                                          !.att.rollspeed = e1.ret_val,
                                          !.att.pitchspeed = e2.ret_val,
                                          !.att.yawspeed = e3.ret_val]
                          ELSE [s2 EXCEPT !.i = e2.index + 10]
        ELSE \* type C: accelerations, extracted and not stored
             LET a1 == f_extract_until_coma(i2 + 2, buffer, buffer_length)
                 a2 == f_extract_until_coma(a1.index + 10, buffer,
                                            buffer_length)
                 a3 == f_extract_until_coma(a2.index + 10, buffer,
                                            buffer_length)
             IN  IF ~a1.ok THEN [s2 EXCEPT !.i = i2 + 2]
                 ELSE IF ~a2.ok THEN [s2 EXCEPT !.i = a1.index + 10]
                 ELSE IF ~a3.ok THEN [s2 EXCEPT !.i = a2.index + 10]
                 ELSE [s2 EXCEPT !.i = a3.index]

\* The for loop of xdr_parser.  seen holds the values of i at the loop test so
\* far: the loop is deterministic in i, so a value of i that comes back means
\* that the call does not return.
RECURSIVE xdr_loop(_, _, _, _, _)
xdr_loop(s, seen, buffer, buffer_length, stale) ==
    IF ~(buffer_length - s.i > MIN_BYTE_FOR_PARSING_LONG_MSG) THEN s
    ELSE IF s.i \in seen THEN [s EXCEPT !.returns = FALSE]
    ELSE LET f == find_string(s.i, buffer, buffer_length, YXXDR)
             b == xdr_sentence(s, f, buffer, buffer_length, stale)
         IN  IF f = -1 THEN s
             ELSE by_value([b EXCEPT !.i = @ + 1],
                           LAMBDA n : xdr_loop(n, seen \cup {s.i},
                                               buffer, buffer_length, stale))

xdr_parser(buffer, buffer_length, att_raw, stale) ==
    xdr_loop([i |-> 0, att |-> att_raw, reads |-> {}, stored |-> {},
              returns |-> TRUE], {}, buffer, buffer_length, stale)

\* vr_parser: the body of the for loop for the WIVWR found at index f.
vr_sentence(s, f, buffer, buffer_length, stale) ==
    LET e1 == f_extract_until_coma(f + 6, buffer, buffer_length)
        i2 == e1.index + 1
        s2 == [s EXCEPT !.reads = @ \cup {i2}]
        temp_angle == IF rd(buffer, i2, stale) = "L"
                      THEN 0 - e1.ret_val ELSE e1.ret_val
        e2 == f_extract_until_coma(i2 + 2, buffer, buffer_length)
    IN  IF ~e1.ok THEN [s EXCEPT !.i = f + 6]
        ELSE IF e2.ok
        THEN [s2 EXCEPT !.i = e2.index,
                        !.wind.angle_apparent = temp_angle,
                        !.wind.speed_apparent = e2.ret_val,
                        !.stored = @ \cup {[at |-> f]}]
        ELSE [s2 EXCEPT !.i = i2 + 2]

RECURSIVE vr_loop(_, _, _, _, _)
vr_loop(s, seen, buffer, buffer_length, stale) ==
    IF ~(buffer_length - s.i > MIN_BYTE_FOR_PARSING_LONG_MSG) THEN s
    ELSE IF s.i \in seen THEN [s EXCEPT !.returns = FALSE]
    ELSE LET f == find_string(s.i, buffer, buffer_length, WIVWR)
             b == vr_sentence(s, f, buffer, buffer_length, stale)
         IN  IF f = -1 THEN s
             ELSE by_value([b EXCEPT !.i = @ + 1],
                           LAMBDA n : vr_loop(n, seen \cup {s.i},
                                               buffer, buffer_length, stale))

vr_parser(buffer, buffer_length, wind_sailing, stale) ==
    vr_loop([i |-> 0, wind |-> wind_sailing, reads |-> {}, stored |-> {},
             returns |-> TRUE], {}, buffer, buffer_length, stale)

\* hdt_parser: the body of the for loop for the HCHDT found at index f.
hdt_sentence(s, f, buffer, buffer_length) ==
    LET e1 == f_extract_until_coma(f + 6, buffer, buffer_length)
    IN  IF e1.ok
        THEN [s EXCEPT !.i = e1.index, !.att.yaw = e1.ret_val,
                       !.stored = @ \cup {[at |-> f]}]
        ELSE [s EXCEPT !.i = f + 6]

RECURSIVE hdt_loop(_, _, _, _)
hdt_loop(s, seen, buffer, buffer_length) ==
    IF ~(buffer_length - s.i > MIN_BYTE_FOR_PARSING_SHORT_MSG) THEN s
    ELSE IF s.i \in seen THEN [s EXCEPT !.returns = FALSE]
    ELSE LET f == find_string(s.i, buffer, buffer_length, HCHDT)
             b == hdt_sentence(s, f, buffer, buffer_length)
         IN  IF f = -1 THEN s
             ELSE by_value([b EXCEPT !.i = @ + 1],
                           LAMBDA n : hdt_loop(n, seen \cup {s.i},
                                               buffer, buffer_length))

hdt_parser(buffer, buffer_length, att_raw) ==
    hdt_loop([i |-> 0, att |-> att_raw, reads |-> {}, stored |-> {},
              returns |-> TRUE], {}, buffer, buffer_length)

\* mwd_parser: the body of the for loop for the WIMWD found at index f.  The
\* result of jump_to_next_coma is assigned to i itself.
mwd_sentence(s, f, buffer, buffer_length) ==
    LET e1 == f_extract_until_coma(f + 6, buffer, buffer_length)
        j == jump_to_next_coma(e1.index + 3, buffer, buffer_length)
        e2 == f_extract_until_coma(j + 3, buffer, buffer_length)
    IN  IF ~e1.ok THEN [s EXCEPT !.i = f + 6]
        ELSE IF j = -1 THEN [s EXCEPT !.i = -1]
        ELSE IF e2.ok
        THEN [s EXCEPT !.i = e2.index,
                       !.wind.angle_true = e1.ret_val,
                       !.wind.speed_true = e2.ret_val,
                       !.stored = @ \cup {[at |-> f]}]
        ELSE [s EXCEPT !.i = j + 3]

RECURSIVE mwd_loop(_, _, _, _)
mwd_loop(s, seen, buffer, buffer_length) ==
    IF ~(buffer_length - s.i > MIN_BYTE_FOR_PARSING_SHORT_MSG) THEN s
    ELSE IF s.i \in seen THEN [s EXCEPT !.returns = FALSE]
    ELSE LET f == find_string(s.i, buffer, buffer_length, WIMWD)
             b == mwd_sentence(s, f, buffer, buffer_length)
         IN  IF f = -1 THEN s
             ELSE by_value([b EXCEPT !.i = @ + 1],
                           LAMBDA n : mwd_loop(n, seen \cup {s.i},
                                               buffer, buffer_length))

mwd_parser(buffer, buffer_length, wind_sailing) ==
    mwd_loop([i |-> 0, wind |-> wind_sailing, reads |-> {}, stored |-> {},
              returns |-> TRUE], {}, buffer, buffer_length)

\* nmea_ndeg2degree(val) * 1e7f for val in hundredths (ddmm.mm): the degrees
\* are (int)(val / 100), the rest is minutes; the float product is rounded to
\* 24 bits.
nmea_ndeg2degree(val) ==
    LET deg == Quot(val, 10000)
    IN  F32(deg * 10000000 + Quot((val - deg * 10000) * 100000, 60))

\* gp_parser, GPGGA: the while loop that copies the time, from index i with
\* counter characters already in time_char.  It tests buffer[i] only.
RECURSIVE gp_time_scan(_, _, _, _, _)
gp_time_scan(i, counter, reads, buffer, stale) ==
    IF rd(buffer, i, stale) # ","
    THEN IF counter >= SAFETY_COUNTER_EXTRACT
         THEN [i |-> i, counter |-> counter, reads |-> reads \cup {i},
               safety |-> TRUE]
         ELSE gp_time_scan(i + 1, counter + 1, reads \cup {i}, buffer, stale)
    ELSE [i |-> i, counter |-> counter, reads |-> reads \cup {i},
          safety |-> FALSE]

\* gp_parser: the GPGGA branch for the GP found at index f.
gp_gga(s, f, buffer, buffer_length, stale) ==
    LET t == gp_time_scan(f + 6, s.counter, s.reads, buffer, stale)
        s2 == [s EXCEPT !.counter = t.counter, !.reads = t.reads]
        latitude == f_extract_until_coma(t.i + 1, buffer, buffer_length)
        longitude == f_extract_until_coma(latitude.index + 3, buffer,
                                          buffer_length)
        gps_quality == f_extract_until_coma(longitude.index + 3, buffer,
                                            buffer_length)
        satellites_used == f_extract_until_coma(gps_quality.index + 1, buffer,
                                                buffer_length)
        eph == f_extract_until_coma(satellites_used.index + 1, buffer,
                                    buffer_length)
        alt == f_extract_until_coma(eph.index + 1, buffer, buffer_length)
    IN  IF t.safety THEN [s2 EXCEPT !.i = t.i, !.safety = TRUE]
        ELSE IF ~latitude.ok THEN [s2 EXCEPT !.i = t.i + 1]
        ELSE IF ~longitude.ok THEN [s2 EXCEPT !.i = latitude.index + 3]
        ELSE IF ~gps_quality.ok THEN [s2 EXCEPT !.i = longitude.index + 3]
        ELSE IF ~satellites_used.ok
        THEN [s2 EXCEPT !.i = gps_quality.index + 1]
        ELSE IF ~eph.ok THEN [s2 EXCEPT !.i = satellites_used.index + 1]
        ELSE IF ~alt.ok THEN [s2 EXCEPT !.i = eph.index + 1]
        ELSE [s2 EXCEPT !.i = alt.index,
                        !.gps.lat = nmea_ndeg2degree(latitude.ret_val),
                        !.gps.lon = nmea_ndeg2degree(longitude.ret_val),
                        !.gps.satellites_used =
                            Quot(satellites_used.ret_val, 100),
                        !.gps.eph = eph.ret_val,
                        !.gps.alt = alt.ret_val * 10,
                        !.stored = @ \cup {[at |-> f]}]

\* gp_parser: the GPGSA branch.
gp_gsa(s, f, buffer, stale) ==
    LET c == rd(buffer, f + 8, stale)
    IN  [s EXCEPT !.i = f + 8, !.reads = @ \cup {f + 8},
                  !.gps.fix_type = IF c = "2" THEN 2
                                   ELSE IF c = "3" THEN 3 ELSE 1,
                  !.stored = @ \cup {[at |-> f]}]

\* gp_parser: the GPVTG branch.
gp_vtg(s, f, buffer, buffer_length) ==
    LET course_over_ground == f_extract_until_coma(f + 6, buffer,
                                                   buffer_length)
        app_i == jump_to_next_coma(course_over_ground.index + 3, buffer,
                                   buffer_length)
        speed_over_ground == f_extract_until_coma(app_i + 3, buffer,
                                                  buffer_length)
    IN  IF ~course_over_ground.ok THEN [s EXCEPT !.i = f + 6]
        ELSE IF app_i = -1 THEN [s EXCEPT !.i = course_over_ground.index + 3]
        ELSE IF speed_over_ground.ok
        THEN [s EXCEPT !.i = speed_over_ground.index,
                       !.gps.vel_n_m_s = speed_over_ground.ret_val,
                       !.gps.cog_rad = course_over_ground.ret_val,
                       !.stored = @ \cup {[at |-> f]}]
        ELSE [s EXCEPT !.i = app_i + 3]

\* gp_parser: the body of the for loop for the GP found at index f.  The three
\* tests read buffer[f + 2], then buffer[f + 3], then buffer[f + 4], each only
\* when the one before it matched.
gp_sentence(s, f, buffer, buffer_length, stale) ==
    LET c2 == rd(buffer, f + 2, stale)
        c3 == rd(buffer, f + 3, stale)
        c4 == rd(buffer, f + 4, stale)
        r3 == IF c2 \in {"G", "V"} THEN {f + 3} ELSE {}
        r4 == IF \/ c2 = "G" /\ c3 \in {"G", "S"}
                 \/ c2 = "V" /\ c3 = "T"
              THEN {f + 4} ELSE {}
        s2 == [s EXCEPT !.i = f, !.reads = @ \cup {f + 2} \cup r3 \cup r4]
    IN  IF c2 = "G" /\ c3 = "G" /\ c4 = "A"
        THEN gp_gga(s2, f, buffer, buffer_length, stale)
        ELSE IF c2 = "G" /\ c3 = "S" /\ c4 = "A"
        THEN gp_gsa(s2, f, buffer, stale)
        ELSE IF c2 = "V" /\ c3 = "T" /\ c4 = "G"
        THEN gp_vtg(s2, f, buffer, buffer_length)
        ELSE s2

\* The for loop of gp_parser: counter is set once, before the loop, so the
\* state at the loop test is the pair of i and counter.  A safety exit of the
\* time loop returns from gp_parser.
RECURSIVE gp_loop(_, _, _, _, _)
gp_loop(s, seen, buffer, buffer_length, stale) ==
    IF ~(buffer_length - s.i > MIN_BYTE_FOR_PARSING_LONG_MSG) THEN s
    ELSE IF <<s.i, s.counter>> \in seen THEN [s EXCEPT !.returns = FALSE]
    ELSE LET f == find_string(s.i, buffer, buffer_length, GP)
             b == gp_sentence(s, f, buffer, buffer_length, stale)
         IN  IF f = -1 THEN s
             ELSE IF b.safety THEN b
             ELSE by_value([b EXCEPT !.i = @ + 1],
                           LAMBDA n : gp_loop(n,
                                              seen \cup {<<s.i, s.counter>>},
                                              buffer, buffer_length, stale))

gp_parser(buffer, buffer_length, gps_raw, stale) ==
    gp_loop([i |-> 0, counter |-> 0, gps |-> gps_raw, reads |-> {},
             stored |-> {}, safety |-> FALSE, returns |-> TRUE],
            {}, buffer, buffer_length, stale)

\* The bytes in buffer_global: sentences of the 200WX station.
\* $YXXDR,A,4.5,D,PTCH,A,5.5,D,ROLL*
XDR_B ==
    << "$", "Y", "X", "X", "D", "R", ",", "A", ",", "4", ".", "5", ",", "D",
       ",", "P", "T", "C", "H", ",", "A", ",", "5", ".", "5", ",", "D", ",",
       "R", "O", "L", "L", "*" >>
\* $YXXDR,A,1.5,D,RRTR,A,2.5,D,PRTR,A,3.5,D,YRTR*
XDR_E ==
    << "$", "Y", "X", "X", "D", "R", ",", "A", ",", "1", ".", "5", ",", "D",
       ",", "R", "R", "T", "R", ",", "A", ",", "2", ".", "5", ",", "D", ",",
       "P", "R", "T", "R", ",", "A", ",", "3", ".", "5", ",", "D", ",", "Y",
       "R", "T", "R", "*" >>
\* $YXXDR,A,0.1,G,XACC,A,0.2,G,YACC,A,0.3,G,ZACC*
XDR_C ==
    << "$", "Y", "X", "X", "D", "R", ",", "A", ",", "0", ".", "1", ",", "G",
       ",", "X", "A", "C", "C", ",", "A", ",", "0", ".", "2", ",", "G", ",",
       "Y", "A", "C", "C", ",", "A", ",", "0", ".", "3", ",", "G", ",", "Z",
       "A", "C", "C", "*" >>
\* $GPGGA,134458.60,4722.70,N,00833.16,E,1,7,2.4,523.4,M,49.1,M,,*
GGA_1 ==
    << "$", "G", "P", "G", "G", "A", ",", "1", "3", "4", "4", "5", "8", ".",
       "6", "0", ",", "4", "7", "2", "2", ".", "7", "0", ",", "N", ",", "0",
       "0", "8", "3", "3", ".", "1", "6", ",", "E", ",", "1", ",", "7", ",",
       "2", ".", "4", ",", "5", "2", "3", ".", "4", ",", "M", ",", "4", "9",
       ".", "1", ",", "M", ",", ",", "*" >>
\* $GPGGA,134459.60,4722.80,N,00833.26,E,1,8,2.1,524.4,M,49.1,M,,*
GGA_2 ==
    << "$", "G", "P", "G", "G", "A", ",", "1", "3", "4", "4", "5", "9", ".",
       "6", "0", ",", "4", "7", "2", "2", ".", "8", "0", ",", "N", ",", "0",
       "0", "8", "3", "3", ".", "2", "6", ",", "E", ",", "1", ",", "8", ",",
       "2", ".", "1", ",", "5", "2", "4", ".", "4", ",", "M", ",", "4", "9",
       ".", "1", ",", "M", ",", ",", "*" >>
\* $GPGSA,A,3,M*
GSA ==
    << "$", "G", "P", "G", "S", "A", ",", "A", ",", "3", ",", "M", "*" >>
\* $GPVTG,160.8,T,348.7,M,004.7,N,*
VTG ==
    << "$", "G", "P", "V", "T", "G", ",", "1", "6", "0", ".", "8", ",", "T",
       ",", "3", "4", "8", ".", "7", ",", "M", ",", "0", "0", "4", ".", "7",
       ",", "N", ",", "*" >>
\* $WIVWR,045.3,L,12.5,N,6.4,M,23.1,K*
VWR ==
    << "$", "W", "I", "V", "W", "R", ",", "0", "4", "5", ".", "3", ",", "L",
       ",", "1", "2", ".", "5", ",", "N", ",", "6", ".", "4", ",", "M", ",",
       "2", "3", ".", "1", ",", "K", "*" >>
\* $HCHDT,025.3,T*
HDT ==
    << "$", "H", "C", "H", "D", "T", ",", "0", "2", "5", ".", "3", ",", "T",
       "*" >>
\* $WIMWD,162.3,T,159.8,M,2.3,N,1.2,M*
MWD ==
    << "$", "W", "I", "M", "W", "D", ",", "1", "6", "2", ".", "3", ",", "T",
       ",", "1", "5", "9", ".", "8", ",", "M", ",", "2", ".", "3", ",", "N",
       ",", "1", ".", "2", ",", "M", "*" >>

ParserBuffers ==
    {XDR_E \o XDR_B, XDR_B \o XDR_E, XDR_C \o VWR \o GSA,
     GGA_1 \o GSA \o VTG \o HDT \o MWD, GGA_1 \o GGA_2 \o VTG \o MWD,
     VWR \o HDT \o MWD, MWD \o XDR_C}

\* The bytes that memory may hold past the array.
StaleBytes == {",", "A"}

\* The lengths that read() returns: nothing, the whole buffer, or a read that
\* ends with a comma, with the end of a sentence or with the P of a header.
ReadLengths(buffer) ==
    {0, Len(buffer)} \cup
    {n \in 1..Len(buffer) : buffer[n] \in {",", "*", "P"}}

\* read() has put buffer_length bytes in the array; the bytes after them are
\* those of an earlier read.
InitParser ==
    /\ ref_act = [alpha_star |-> 785, should_tack |-> FALSE]
    /\ tack_data = tack_data_init
    /\ pi_rudder_data = pi_rudder_data_init
    /\ sail_controller_data = sail_controller_data_init
    /\ strs = strs_zero
    /\ params = [sail_servo |-> -1000]
    /\ \E buffer \in ParserBuffers :
          \E buffer_length \in ReadLengths(buffer), outdoor \in BOOLEAN,
             stale \in StaleBytes :
             last = [op |-> "read", buffer |-> buffer,
                     buffer_length |-> buffer_length, outdoor |-> outdoor,
                     stale |-> stale, att |-> att_raw_zero,
                     wind |-> wind_sailing_zero, gps |-> gps_raw_zero,
                     reads |-> {}, xdr |-> {}, gp |-> {}, returns |-> TRUE]
    /\ tack_origin = no_origin
    /\ thread_should_exit = FALSE
    /\ thread_running = FALSE
    /\ task = [t \in Tasks |-> task_none]
    /\ nav = nav_init
    /\ ref0 = no_ref0

\* The steps of retrieve_data.  last.op is the call that has just been made,
\* last.returns tells whether it came back, last.reads holds the indices of the
\* buffer read directly so far.
parser_frame ==
    /\ UNCHANGED <<ref_act, tack_data, pi_rudder_data, sail_controller_data,
                   strs, params, tack_origin>>
    /\ UNCHANGED daemon_vars
    /\ UNCHANGED nav_vars

\* buffer_length < 1: retrieve_data returns false.
ReadNothing ==
    /\ last.op = "read" /\ last.buffer_length < 1
    /\ last' = [last EXCEPT !.op = "retrieve_data"]
    /\ parser_frame

XdrParser ==
    /\ last.op = "read" /\ ~(last.buffer_length < 1)
    /\ last' = by_value(xdr_parser(last.buffer, last.buffer_length, last.att,
                                   last.stale),
                        LAMBDA r : [last EXCEPT !.op = "xdr_parser",
                                                !.att = r.att,
                                                !.reads = @ \cup r.reads,
                                                !.xdr = r.stored,
                                                !.returns = r.returns])
    /\ parser_frame

VrParser ==
    /\ last.op = "xdr_parser" /\ last.returns
    /\ last' = by_value(vr_parser(last.buffer, last.buffer_length, last.wind,
                                  last.stale),
                        LAMBDA r : [last EXCEPT !.op = "vr_parser",
                                                !.wind = r.wind,
                                                !.reads = @ \cup r.reads,
                                                !.returns = r.returns])
    /\ parser_frame

GpParser ==
    /\ last.op = "vr_parser" /\ last.returns /\ last.outdoor
    /\ last' = by_value(gp_parser(last.buffer, last.buffer_length, last.gps,
                                  last.stale),
                        LAMBDA r : [last EXCEPT !.op = "gp_parser",
                                                !.gps = r.gps,
                                                !.reads = @ \cup r.reads,
                                                !.gp = r.stored,
                                                !.returns = r.returns])
    /\ parser_frame

HdtParser ==
    /\ last.op = "gp_parser" /\ last.returns
    /\ last' = by_value(hdt_parser(last.buffer, last.buffer_length, last.att),
                        LAMBDA r : [last EXCEPT !.op = "hdt_parser",
                                                !.att = r.att,
                                                !.returns = r.returns])
    /\ parser_frame

MwdParser ==
    /\ last.op = "hdt_parser" /\ last.returns
    /\ last' = by_value(mwd_parser(last.buffer, last.buffer_length, last.wind),
                        LAMBDA r : [last EXCEPT !.op = "mwd_parser",
                                                !.wind = r.wind,
                                                !.returns = r.returns])
    /\ parser_frame

\* The last parser of the build has come back: retrieve_data returns true.
RetrieveDataReturns ==
    /\ \/ last.op = "vr_parser" /\ ~last.outdoor
       \/ last.op = "mwd_parser"
    /\ last.returns
    /\ last' = [last EXCEPT !.op = "retrieve_data"]
    /\ parser_frame

ParserCalls ==
    {"xdr_parser", "vr_parser", "gp_parser", "hdt_parser", "mwd_parser"}

NextParser ==
    \/ ReadNothing
    \/ XdrParser
    \/ VrParser
    \/ GpParser
    \/ HdtParser
    \/ MwdParser
    \/ RetrieveDataReturns

SpecParser == InitParser /\ [][NextParser]_vars

----------------------------------------------------------------------------
(* Properties of the tack machine *)

IsCycle == last.op = "guidance_module"

roll_now(i) == IF i = 0 THEN strs.att.roll ELSE strs.boat_weather_station.roll_r
yaw_now(i) == IF i = 0 THEN strs.att.yaw ELSE strs.boat_weather_station.heading_tn

\* C3: the machine starts in TRACKING; a cycle entered with should_tack and not
\* tacking enters TACKING and stores the roll and yaw of both sources;
\* boat_is_tacking rises in no other step, and the snapshot changes in no other
\* step.
C3_StartSnapshot ==
    /\ ~tack_data.boat_is_tacking
    /\ [][LET cycle == last'.op = "guidance_module"
              start == cycle /\ ref_act.should_tack /\ ~tack_data.boat_is_tacking
              snap_changed ==
                  \/ tack_data'.roll_before_tack # tack_data.roll_before_tack
                  \/ tack_data'.yaw_before_tack # tack_data.yaw_before_tack
          IN  /\ start =>
                    /\ tack_data'.boat_is_tacking
                    /\ \A i \in {0, 1} :
                          /\ tack_data'.roll_before_tack[i] = roll_now(i)
                          /\ tack_data'.yaw_before_tack[i] = yaw_now(i)
              /\ (tack_data'.boat_is_tacking /\ ~tack_data.boat_is_tacking) => start
              /\ snap_changed => start]_vars

\* A later cycle of a tack: the completion check ran, the tack goes on and the
\* snapshot of both sources differs from the current readings.
C3_Witness ==
    /\ IsCycle /\ last.checked /\ ~last.completed
    /\ tack_data.boat_is_tacking
    /\ tack_data.roll_before_tack[0] # roll_now(0)
    /\ tack_data.yaw_before_tack[1] # yaw_now(1)
    /\ tack_data.roll_before_tack[0] # tack_data.roll_before_tack[1]

\* C4: the cycle entered tacking in which is_tack_completed is true clears
\* should_tack and boat_is_tacking and issues notify_tack_completed and the
\* "Tack completed." notice once; no other step of the core clears a flag or
\* notifies.
C4_CompletionOnce ==
    [][LET cycle == last'.op = "guidance_module"
           complete == /\ cycle
                       /\ ref_act.should_tack
                       /\ tack_data.boat_is_tacking
                       /\ (roll_stop_tack(tack_data, roll_now(0), 0)
                            \/ roll_stop_tack(tack_data, roll_now(1), 1))
                       /\ (yaw_stop_tack(tack_data, yaw_now(0), 0)
                            \/ yaw_stop_tack(tack_data, yaw_now(1), 1))
       IN  /\ complete =>
                /\ ~ref_act'.should_tack
                /\ ~tack_data'.boat_is_tacking
                /\ last'.notify = 1
                /\ last'.log = <<"Tack completed.">>
           /\ (cycle /\ ~complete) =>
                /\ ref_act'.should_tack = ref_act.should_tack
                /\ (tack_data.boat_is_tacking => tack_data'.boat_is_tacking)
                /\ last'.notify = 0
                /\ last'.log = <<>>
           /\ (~cycle /\ last'.op # "path_planning") =>
                /\ ref_act' = ref_act
                /\ tack_data'.boat_is_tacking = tack_data.boat_is_tacking]_vars

\* The cycle that completed a tack: both flags cleared, one notification.
C4_Witness ==
    /\ IsCycle /\ last.should_tack /\ last.boat_is_tacking /\ last.completed
    /\ ~ref_act.should_tack /\ ~tack_data.boat_is_tacking
    /\ last.notify = 1

\* C6 (as claimed): while a tack is on, the turn direction used by the yaw
\* check, tack_rudder_command, has the sign of -alpha_star of the cycle that
\* started the tack.
C6_DirectionRecorded ==
    tack_data.boat_is_tacking =>
        /\ (-tack_origin.alpha_star > 0) => tack_data.tack_rudder_command > 0
        /\ (-tack_origin.alpha_star < 0) => tack_data.tack_rudder_command < 0

\* C7 (as claimed): every later cycle of a tack applies the helmsman law of the
\* cycle that started it.
C7_LawFixedAtStart ==
    (IsCycle /\ last.should_tack /\ last.boat_is_tacking) =>
        last.law = tack_origin.law

\* C8: the completion check is true exactly when the roll condition holds for
\* a source and the yaw condition holds for a source.  (A cycle leaves the
\* readings, the snapshot and the thresholds as the check saw them.)
C8_CompletedIffRollAndYaw ==
    (IsCycle /\ last.checked) =>
        (last.completed <=>
            /\ \E i \in {0, 1} : roll_stop_tack(tack_data, roll_now(i), i)
            /\ \E i \in {0, 1} : yaw_stop_tack(tack_data, yaw_now(i), i))

\* A tack completed by the roll of source 0 and the yaw of source 1 alone.
C8_Witness ==
    /\ IsCycle /\ last.checked /\ last.completed
    /\ roll_stop_tack(tack_data, roll_now(0), 0)
    /\ ~roll_stop_tack(tack_data, roll_now(1), 1)
    /\ ~yaw_stop_tack(tack_data, yaw_now(0), 0)
    /\ yaw_stop_tack(tack_data, yaw_now(1), 1)

\* C9 (as claimed): in a tack that turns left (helmsman law p2s, rudder to the
\* left) from a negative start yaw, the yaw condition of a source holds only if
\* the yaw, extended by -2*pi when not negative, is at least yaw_stop_tack
\* below the start yaw; mirror image for a right turn from a positive start yaw.
C9_NoSpuriousYawStop ==
    \A i \in {0, 1} :
        LET y0 == tack_data.yaw_before_tack[i]
            left == IF yaw_now(i) < 0 THEN yaw_now(i) ELSE yaw_now(i) - 2 * M_PI_F
            right == IF yaw_now(i) > 0 THEN yaw_now(i) ELSE yaw_now(i) + 2 * M_PI_F
        IN  (tack_data.boat_is_tacking /\ yaw_stop_tack(tack_data, yaw_now(i), i)) =>
                /\ (tack_origin.law = "p2s" /\ y0 < 0) =>
                        left - y0 <= -tack_data.yaw_stop_tack
                /\ (tack_origin.law = "s2p" /\ y0 > 0) =>
                        right - y0 >= tack_data.yaw_stop_tack

\* C10: the roll condition of source i against the snapshot r0 and the ratio
\* (tenths, positive): r0 > 0: roll <= -r0/ratio; r0 < 0: roll >= -r0/ratio;
\* r0 = 0: never.  With both start rolls 0 the check is false and the machine
\* stays in TACKING.
C10_RollCondition ==
    /\ \A i \in {0, 1} :
          LET r0 == tack_data.roll_before_tack[i]
              c == roll_stop_tack(tack_data, roll_now(i), i)
          IN  /\ r0 > 0 => (c <=> roll_now(i) * tack_data.roll_stop_tack
                                      <= -r0 * GainScale)
              /\ r0 < 0 => (c <=> roll_now(i) * tack_data.roll_stop_tack
                                      >= -r0 * GainScale)
              /\ r0 = 0 => ~c
    /\ (/\ IsCycle /\ last.checked
        /\ \A i \in {0, 1} : tack_data.roll_before_tack[i] = 0)
          => (~last.completed /\ tack_data.boat_is_tacking /\ ref_act.should_tack)

\* The roll of source 0 exactly on the bound -r0/ratio completes the roll
\* condition, and the tack.
C10_Witness ==
    /\ IsCycle /\ last.checked /\ last.completed
    /\ tack_data.roll_before_tack[0] > 0
    /\ roll_now(0) * tack_data.roll_stop_tack
          = -tack_data.roll_before_tack[0] * GainScale

----------------------------------------------------------------------------
(* Properties of the commands *)

rudder_out == strs.actuators.control[0]
sail_out == strs.actuators.control[3]

\* The saturated commands of the helmsman law for the cycle recorded in last.
helmsman_out ==
    LET c == tack_command([alpha_star |-> last.alpha_star], last.alpha_yaw)
    IN  [rudder |-> Fin(rudder_saturation(c.rud)),
         sail |-> sail_saturation(Fin(c.sails))]

\* The saturated commands of the PI controller and of the sail controller or
\* the manual override for the cycle just run.
tracking_out ==
    [rudder |-> Fin(rudder_saturation(pi_rudder_data.last_command)),
     sail |-> sail_saturation(
                IF params.sail_servo < 0
                THEN sail_controller(sail_controller_data,
                                     strs.boat_guidance_debug.app_mean)
                ELSE Fin(params.sail_servo))]

\* C1 (as claimed): the rudder written to control[0] is a number in
\* [-RUDDER_SATURATION, RUDDER_SATURATION] and the sail written to control[3]
\* is a number in [0, SAIL_SATURATION].
C1_CommandsInRange ==
    /\ rudder_out.k = "fin"
    /\ -RUDDER_SATURATION <= rudder_out.v /\ rudder_out.v <= RUDDER_SATURATION
    /\ sail_out.k = "fin"
    /\ 0 <= sail_out.v /\ sail_out.v <= SAIL_SATURATION

\* C5 (as claimed): every cycle entered with should_tack writes the saturated
\* helmsman commands.
C5_HelmsmanEveryTackCycle ==
    (IsCycle /\ last.should_tack) =>
        (rudder_out = helmsman_out.rudder /\ sail_out = helmsman_out.sail)

\* C5 (amended): a cycle entered with should_tack that does not complete the
\* tack writes the saturated helmsman commands and does not run the PI
\* controller; the cycle in which is_tack_completed is true runs the PI
\* controller once and writes the commands of the PI controller and of the
\* sail controller or the manual override.
C5_HelmsmanUntilCompleted ==
    (IsCycle /\ last.should_tack) =>
        IF last.completed
        THEN /\ last.pi_calls = 1
             /\ rudder_out = tracking_out.rudder
             /\ sail_out = tracking_out.sail
        ELSE /\ last.pi_calls = 0
             /\ rudder_out = helmsman_out.rudder
             /\ sail_out = helmsman_out.sail

\* The cycle that completes a tack with commands that differ from the
\* helmsman's: the rudder of the PI controller, saturated.
C5_Witness ==
    /\ IsCycle /\ last.should_tack /\ last.completed
    /\ rudder_out = Fin(-RUDDER_SATURATION)
    /\ rudder_out # helmsman_out.rudder
    /\ sail_out # helmsman_out.sail

\* C13: a cycle calls pi_controller at most once, and not at all when it ends
\* with should_tack set: such a cycle leaves pi_rudder_data as it was.  The
\* cycles that start and that complete a tack do not reset sum_error_pi and
\* last_command: the PI state after them is the one before, or the one
\* pi_controller makes of it.
C13_PiOnlyWhenTracking ==
    [][(last'.op = "guidance_module") =>
          /\ last'.pi_calls \in {0, 1}
          /\ ref_act'.should_tack =>
                (last'.pi_calls = 0 /\ pi_rudder_data' = pi_rudder_data)
          /\ (last'.started \/ last'.completed) =>
                pi_rudder_data' =
                    IF last'.pi_calls = 1
                    THEN pi_controller(pi_rudder_data, ref_act.alpha_star,
                                       strs'.boat_guidance_debug.alpha).pi
                    ELSE pi_rudder_data]_vars

\* A later cycle of a tack, with a PI state from the tracking before the tack.
C13_Witness ==
    /\ IsCycle /\ last.boat_is_tacking /\ ref_act.should_tack
    /\ last.pi_calls = 0
    /\ pi_rudder_data.sum_error_pi # 0
    /\ pi_rudder_data.last_command # 0

\* C16: guidance_module leaves alpha_star alone, and changes should_tack only
\* from true to false, in the cycle that completes the tack.
C16_ReferenceReadOnly ==
    [][(last'.op = "guidance_module") =>
          /\ ref_act'.alpha_star = ref_act.alpha_star
          /\ (ref_act'.should_tack # ref_act.should_tack) =>
                (ref_act.should_tack /\ ~ref_act'.should_tack /\ last'.completed)
          /\ last'.completed => (ref_act.should_tack /\ ~ref_act'.should_tack)]_vars

\* The cycle that completed a tack on the port haul: should_tack cleared, the
\* reference heading still -45 degrees.
C16_Witness ==
    /\ IsCycle /\ last.completed /\ last.should_tack
    /\ ~ref_act.should_tack
    /\ ref_act.alpha_star = -785 /\ last.alpha_star = -785

\* C14: set_pi_rudder_data replaces all gains and sets use_conditional to
\* (use_conditional > 0); it resets last_command and sum_error_pi and sends one
\* notice exactly when that mode differs from the current one.
C14_ResetOnModeChange ==
    [][(last'.op = "set_pi_rudder_data") =>
          LET c == last'.args
              mode == c[5] > 0
              switched == mode # pi_rudder_data.use_conditional
          IN  /\ pi_rudder_data'.p = c[1] /\ pi_rudder_data'.i = c[2]
              /\ pi_rudder_data'.cp = c[3] /\ pi_rudder_data'.ci = c[4]
              /\ pi_rudder_data'.kaw = c[6]
              /\ pi_rudder_data'.use_conditional = mode
              /\ switched =>
                    /\ pi_rudder_data'.last_command = 0
                    /\ pi_rudder_data'.sum_error_pi = 0
                    /\ Len(last'.log) = 1
              /\ ~switched =>
                    /\ pi_rudder_data'.last_command = pi_rudder_data.last_command
                    /\ pi_rudder_data'.sum_error_pi = pi_rudder_data.sum_error_pi
                    /\ last'.log = <<>>]_vars

\* The classical mode asked for with a negative number while the conditional
\* mode had a PI state: the state is reset and the notice is sent.
C14_Witness ==
    /\ last.op = "set_pi_rudder_data"
    /\ last.args[5] < 0
    /\ last.before.sum_error_pi # 0 /\ last.before.last_command # 0
    /\ pi_rudder_data.sum_error_pi = 0 /\ pi_rudder_data.last_command = 0
    /\ ~pi_rudder_data.use_conditional
    /\ last.log = <<"Switched to normal PI with anti wind-up gain.">>

\* The error reference - measured of the cycle recorded in last.
cycle_error == last.alpha_star - strs.boat_guidance_debug.alpha

C19_OverrideVerbatim ==
    (IsCycle /\ last.pi_calls = 1) =>
        sail_out = IF params.sail_servo >= 0
                   THEN Fin(params.sail_servo)
                   ELSE sail_controller(sail_controller_data,
                                        strs.boat_guidance_debug.app_mean)

\* C19 (amended): the override replaces the output of sail_controller before
\* the clamp: control[3] is the override when it is at most SAIL_SATURATION,
\* and SAIL_SATURATION when the override is larger.
C19_OverrideSaturated ==
    (IsCycle /\ last.pi_calls = 1) =>
        sail_out = IF params.sail_servo > SAIL_SATURATION
                   THEN Fin(SAIL_SATURATION)
                   ELSE IF params.sail_servo >= 0
                   THEN Fin(params.sail_servo)
                   ELSE sail_controller(sail_controller_data,
                                        strs.boat_guidance_debug.app_mean)

\* A tracking cycle with an override above SAIL_SATURATION, while the sail
\* controller would have eased the sail off.
C19_Witness ==
    /\ IsCycle /\ last.pi_calls = 1
    /\ params.sail_servo > SAIL_SATURATION
    /\ sail_out = Fin(SAIL_SATURATION)
    /\ sail_controller(sail_controller_data, strs.boat_guidance_debug.app_mean)
          # Fin(SAIL_SATURATION)

\* The value C20 gives for n positions and the angle a: the quanta are pi/n and
\* SAIL_SATURATION/n, k is the floor of |a| over the angle quantum.
sail_trim(n, a) ==
    LET k == Abs(a) \div Quot(M_PI_F, n)
    IN  Fin(SAIL_SATURATION - k * Quot(SAIL_SATURATION, n))

----------------------------------------------------------------------------
(* Properties of the tack requests and of the controllers in a cycle *)

\* C33 (as claimed): every tack request gets a fresh snapshot.  When the
\* planner raises should_tack the core holds no tack in progress, so that the
\* first cycle of the request takes the starting branch; and a cycle entered
\* with a request and no tack in progress captures the readings and does not
\* evaluate the completion check.
C33_FreshSnapshot ==
    [][/\ (~ref_act.should_tack /\ ref_act'.should_tack) =>
             ~tack_data.boat_is_tacking
       /\ (last'.op = "guidance_module" /\ last' # last
             /\ ref_act.should_tack /\ ~tack_data.boat_is_tacking) =>
             /\ last'.started /\ ~last'.checked
             /\ \A i \in {0, 1} :
                   /\ tack_data'.roll_before_tack[i] = roll_now(i)
                   /\ tack_data'.yaw_before_tack[i] = yaw_now(i)]_vars

C36_NoOverrideInTack ==
    [][(last'.op = "guidance_module" /\ last' # last /\ ref_act'.should_tack) =>
          /\ sail_out' = sail_saturation(
                           Fin(tack_command(ref_act, last'.alpha_yaw).sails))
          /\ \A v \in SailServos :
                guidance_module(ref_act, tack_data, pi_rudder_data,
                                sail_controller_data, strs, v,
                                strs'.boat_guidance_debug.alpha,
                                last'.alpha_yaw,
                                strs'.boat_guidance_debug.app_mean,
                                0).st.actuators = strs'.actuators]_vars

\* A tack cycle under a manual override of full sail: the sail written is the
\* helmsman's SAIL_20.
C36_Witness ==
    /\ IsCycle /\ ref_act.should_tack /\ last.should_tack
    /\ params.sail_servo >= SAIL_SATURATION
    /\ sail_out = Fin(SAIL_20)
    /\ sail_out = helmsman_out.sail

----------------------------------------------------------------------------
(* Properties of the helmsman law *)

\* The state after a cycle of a tack that applied the given helmsman law and
\* wrote its commands.
helm_cycle(law) ==
    IsCycle /\ last.should_tack /\ ~last.completed /\ last.law = law

C22_SailConfined ==
    helm_cycle("p2s") =>
        LET sails == helmsman_tack_p2s(last.alpha_yaw).sails
        IN  /\ (last.alpha_yaw <= -523598 \/ last.alpha_yaw > 523598) => sails = 0
            /\ 0 <= sails /\ sails <= SAIL_20
            /\ sail_out = Fin(sails)

\* C23: helmsman_tack_s2p(alpha) is (-r, s) for (r, s) = helmsman_tack_p2s(-alpha);
\* a cycle of a starboard-to-port tack writes these commands, saturated.
C23_MirrorLaw ==
    /\ \A a \in HelmAlphas :
          LET port == helmsman_tack_p2s(-a)
          IN  helmsman_tack_s2p(a) = [rud |-> -port.rud, sails |-> port.sails]
    /\ helm_cycle("s2p") =>
          LET port == helmsman_tack_p2s(-last.alpha_yaw)
          IN  /\ rudder_out = Fin(rudder_saturation(-port.rud))
              /\ sail_out = sail_saturation(Fin(port.sails))

\* A cycle of a starboard-to-port tack at alpha_yaw = -0.3: the rudder is to
\* the right and the sail at SAIL_20, as port-to-starboard gives at +0.3.
C23_Witness ==
    /\ helm_cycle("s2p") /\ last.alpha_yaw = -300000
    /\ rudder_out.v < 0
    /\ rudder_out.v = -helmsman_tack_p2s(300000).rud
    /\ sail_out = Fin(SAIL_20)

----------------------------------------------------------------------------
(* Properties of the tack completion check *)

\* tack_data and the readings seen in a mirror: every roll and yaw changes
\* sign, and a turn to the left becomes a turn to the right.
mirror_tack_data(td) ==
    [td EXCEPT !.tack_rudder_command = -td.tack_rudder_command,
               !.roll_before_tack = [i \in {0, 1} |-> -td.roll_before_tack[i]],
               !.yaw_before_tack = [i \in {0, 1} |-> -td.yaw_before_tack[i]]]
mirror_readings(st) ==
    [st EXCEPT !.att = [roll |-> -st.att.roll, yaw |-> -st.att.yaw],
               !.boat_weather_station =
                   [roll_r |-> -st.boat_weather_station.roll_r,
                    heading_tn |-> -st.boat_weather_station.heading_tn]]

C25_LeftCaseEvaluated ==
    (IsCycle /\ last.checked /\ ~last.completed /\ rudder_out.k = "fin"
        /\ rudder_out.v > 0) =>
        /\ tack_data.tack_rudder_command > 0
        /\ tack_data.boat_is_tacking

----------------------------------------------------------------------------
(* Properties of the reference-frame data *)

\* (cos_mwd, sin_mwd) are the cosine and the sine of mean_wind_angle_r.
mean_wind_consistent(nv) ==
    /\ nv.ned_to_race_s.cos_mwd = cos_mrad(get_mean_wind_angle(nv))
    /\ nv.ned_to_race_s.sin_mwd = sin_mrad(get_mean_wind_angle(nv))

\* The trig terms and the ECEF origin are those that set_ref0 stores for the
\* origin o.
origin_consistent(nv, o) ==
    LET set == set_ref0(nav_init, o[1], o[2], o[3])
    IN  /\ <<nv.cosPhi, nv.sinPhi, nv.cosLambda, nv.sinLambda>>
             = <<set.cosPhi, set.sinPhi, set.cosLambda, set.sinLambda>>
        /\ <<nv.x0_dm, nv.y0_dm, nv.z0_dm>> = <<set.x0_dm, set.y0_dm, set.z0_dm>>

\* C26 (as claimed): in every reachable state, also before any setter was
\* called, (cos_mwd, sin_mwd) are the cosine and sine of mean_wind_angle_r, and
\* the four trig terms and (x0, y0, z0) belong to one origin: the one last
\* given to set_ref0, or some origin when set_ref0 was not called yet.
C26_FrameDataConsistent ==
    /\ mean_wind_consistent(nav)
    /\ IF ref0 # no_ref0 THEN origin_consistent(nav, ref0)
       ELSE \E o \in Origins : origin_consistent(nav, o)

\* C27 (as claimed): after set_ref0(lat0, lon0, alt0), geo_to_ned on a fix
\* located exactly at that origin returns (0, 0, 0), whatever calls were made
\* in between.
C27_OriginRoundTrip ==
    (last.op = "geo_to_ned" /\ ref0 # no_ref0 /\ last.at = ref0) =>
        last.ned = [north_dm |-> 0, east_dm |-> 0, down_dm |-> 0]

----------------------------------------------------------------------------
(* Properties of the daemon *)

all_controls_zero(act) ==
    \A i \in DOMAIN act.control : act.control[i] = Fin(0)

daemon_left_loop(t) ==
    task[t].pc \in {"exit", "done"}

\* C2: once as_daemon_thread_main has left its loop (thread_should_exit seen at
\* the loop test, also after a failed actuators_init), the last command it
\* published has every control equal to 0, and it publishes nothing after it.
C2_FailsafeOnExit ==
    /\ [](\A t \in Tasks :
            daemon_left_loop(t) => all_controls_zero(task[t].published))
    /\ [][\A t \in Tasks :
            daemon_left_loop(t) =>
                /\ task'[t].published = task[t].published
                /\ task'[t].n_published = task[t].n_published]_vars

\* Two daemons have terminated: one after publishing a command that was not
\* zero, one whose actuators_init had failed.
C2_Witness ==
    \E t, u \in Tasks :
        /\ t # u
        /\ task[t].pc = "done" /\ task[t].nonzero_published
        /\ all_controls_zero(task[t].published)
        /\ task[u].pc = "done" /\ ~task[u].actuators_ok

\* The tasks that execute as_daemon_thread_main: spawned and not yet returned.
daemon_tasks == {t \in Tasks : task[t].pc \notin {"none", "done"}}

\* C29 (as claimed): at any time at most one task executes
\* as_daemon_thread_main; a start given while a daemon is alive spawns nothing.
C29_SingleDaemon ==
    Cardinality(daemon_tasks) <= 1

\* C30 (as claimed): when thread_should_exit is set while thread_running is
\* true, every daemon task that is in its loop eventually publishes the
\* all-zero command and returns, whatever start commands follow.
C30_StopNotLost ==
    \A t \in Tasks :
        [](( /\ thread_should_exit /\ thread_running
             /\ task[t].pc \in {"test", "poll", "params", "guidance", "publish"})
           => <>( /\ task[t].pc = "done"
                  /\ all_controls_zero(task[t].published)))

\* Number of calls of name in the iteration trace it.
calls(it, name) ==
    Cardinality({i \in DOMAIN it : it[i] = name})

\* C28: in every run of the daemon set_ref0 is called exactly once, before the
\* loop, and so before the first geo_to_ned call, which navigation_module makes
\* inside the loop.
C28_Ref0OnceBeforeNed ==
    \A t \in Tasks :
        /\ task[t].set_ref0_calls =
              (IF task[t].pc \in {"none", "init"} THEN 0 ELSE 1)
        /\ ~task[t].ned_before_ref0
        /\ calls(task[t].iter, "navigation_module") > 0 =>
              (task[t].set_ref0_calls = 1 /\ ref0 = DaemonOrigin
                 /\ origin_consistent(nav, DaemonOrigin))

\* A daemon has returned after an iteration that ran navigation_module on new
\* vehicle_global_position data, with one set_ref0 call in its run.
C28_Witness ==
    \E t \in Tasks :
        /\ task[t].pc = "done"
        /\ task[t].set_ref0_calls = 1
        /\ calls(task[t].iter, "navigation_module") = 1
        /\ origin_consistent(nav, DaemonOrigin)

\* C34 (as claimed): a daemon whose actuators_init failed never runs the loop
\* body: it goes from the loop test to the fail-safe, guidance_module is not
\* called, and every command it publishes is all-zero.
C34_NoLoopAfterFailedInit ==
    \A t \in Tasks :
        (task[t].pc \notin {"none", "init"} /\ ~task[t].actuators_ok) =>
            /\ task[t].pc \in {"set_running", "test", "failsafe", "exit", "done"}
            /\ task[t].cycles = 0
            /\ ~task[t].nonzero_published
            /\ all_controls_zero(task[t].published)

\* A step in which task t comes back to the loop test from the loop body.
iteration_ends(t) ==
    task[t].pc \in {"poll", "publish"} /\ task'[t].pc = "test"

\* C11 (as claimed): every iteration of the loop runs guidance_module once and
\* publishes one command, whatever poll() returned.
C11_EveryIterationPublishes ==
    [][\A t \in Tasks :
          iteration_ends(t) =>
              /\ calls(task'[t].iter, "guidance_module") = 1
              /\ calls(task'[t].iter, "orb_publish") = 1]_vars

\* C12 (as claimed): a daemon that has terminated has delivered the all-zero
\* command: the last command whose publication succeeded has every control 0.
C12_FailsafeDelivered ==
    \A t \in Tasks :
        task[t].pc = "done" => all_controls_zero(task[t].delivered)

\* C17 (as claimed): in every iteration param_check_update comes before
\* navigation_module, path_planning and guidance_module.
C17_ParamsBeforeProcessing ==
    \A t \in Tasks :
        LET it == task[t].iter
        IN  \A i \in DOMAIN it :
                it[i] \in {"navigation_module", "path_planning", "guidance_module"}
                    => \E j \in 1 .. i - 1 : it[j] = "param_check_update"

\* C18: every command a daemon publishes has all controls other than 0
\* (rudder) and 3 (sail) equal to 0.
C18_OnlyRudderAndSail ==
    \A t \in Tasks :
        \A i \in DOMAIN task[t].published.control :
            i \notin {0, 3} => task[t].published.control[i] = Fin(0)

\* A daemon has just published the command of a cycle, with the sail hauled in.
C18_Witness ==
    \E t \in Tasks :
        /\ task[t].pc = "test"
        /\ calls(task[t].iter, "orb_publish") = 1
        /\ task[t].published = task[t].strs.actuators
        /\ task[t].published.control[3] = Fin(SAIL_SATURATION)

-----------------------------------------------------------------------------
(* Properties of the NMEA parsers *)

\* The field of an extract call: n characters other than a comma from index,
\* then a comma before buffer_length.
field_of(n, index, buffer, buffer_length) ==
    /\ index + n < buffer_length
    /\ buffer[index + n + 1] = ","
    /\ \A k \in 0..(n - 1) : buffer[index + k + 1] # ","

\* C39: f_extract_until_coma and d_extract_until_coma return true iff from
\* *index there are between 1 and 14 characters other than a comma followed by
\* a comma before buffer_length; on true *index is the position of that comma,
\* on false *index is unchanged and *ret_val is 0; temp_char is written at
\* indices 0..14 only.
C39_ExtractUntilComa ==
    last.op \in {"f_extract_until_coma", "d_extract_until_coma"} =>
        LET fields == {n \in 1..(SAFETY_COUNTER_EXTRACT - 1) :
                          field_of(n, last.index, last.buffer,
                                   last.buffer_length)}
        IN  /\ last.r.ok <=> fields # {}
            /\ last.r.ok =>
                  /\ last.buffer[last.r.index + 1] = ","
                  /\ last.r.index < last.buffer_length
                  /\ last.r.index - last.index \in fields
            /\ ~last.r.ok => last.r.index = last.index /\ last.r.ret_val = 0
            /\ last.r.top < SAFETY_COUNTER_EXTRACT

\* A field of 14 characters is extracted: the terminator goes to temp_char[14].
C39_Witness ==
    /\ last.op = "f_extract_until_coma"
    /\ last.r.ok
    /\ last.r.index - last.index = SAFETY_COUNTER_EXTRACT - 1
    /\ last.r.top = SAFETY_COUNTER_EXTRACT - 1
    /\ last.r.ret_val = 150

\* C31: every parser call ends, whatever the buffer holds and wherever it is
\* cut, so every retrieve_data call returns.
C31_ParsersTerminate ==
    last.op \in ParserCalls => last.returns

\* C32: no parser reads the buffer at an index below 0 or at or above
\* buffer_length.
C32_ReadsInsideBuffer ==
    last.op \in ParserCalls =>
        \A i \in last.reads : i >= 0 /\ i < last.buffer_length

\* gp_parser on the sentence at index f alone, with nothing parsed before it.
gp_alone(f, buffer, buffer_length, stale) ==
    gp_sentence([i |-> f, counter |-> 0, gps |-> gps_raw_zero, reads |-> {},
                 stored |-> {}, safety |-> FALSE, returns |-> TRUE],
                f, buffer, buffer_length, stale)

\* C37: gp_parser stores every sentence that it stores when the sentence is
\* handled alone, whatever sentences come before it in the buffer.
C37_SentencesIndependent ==
    last.op = "gp_parser" =>
        \A f \in 0..(last.buffer_length - 1) :
            (/\ last.buffer_length - f > MIN_BYTE_FOR_PARSING_LONG_MSG
             /\ find_string(f, last.buffer, last.buffer_length, GP) = f
             /\ [at |-> f] \in gp_alone(f, last.buffer, last.buffer_length,
                                        last.stale).stored)
            => [at |-> f] \in last.gp

\* C38: xdr_parser stores pitch and roll from a YXXDR sentence only when the
\* first transducer of that sentence is PTCH: the PTCH it used stands right
\* after the first value of the sentence.
C38_PitchRollSameSentence ==
    last.op = "xdr_parser" =>
        \A b \in last.xdr :
            b.ptch = f_extract_until_coma(b.at + 8, last.buffer,
                                          last.buffer_length).index + 3

====
